---------------------------- MODULE Spec2Model ----------------------------
(***************************************************************************)
(* Model of the batch video compressor (src/VideoCompression.py).          *)
(*                                                                         *)
(* Spec models one call of ParallelVideoProcessor.process_files_parallel   *)
(* with parallel processing enabled and dry_run = False: the small files  *)
(* run process_file in a bounded thread pool, then the large files run     *)
(* _process_large_file_with_parallel_segments one after the other, each    *)
(* with its own bounded pool of segment workers, then the final cleanup.   *)
(* The file system is modelled by the existence and state of the files and *)
(* directories the code creates, moves and deletes.  The outcome of every  *)
(* external step (disk space, hash, ffprobe, ffmpeg, move, unlink) is a    *)
(* nondeterministic choice.                                                *)
(***************************************************************************)
EXTENDS Integers, Sequences, FiniteSets, TLC

\* ------------------------------------------------------------- bounds
NumFiles == 2       \* files in the batch's file list
NumSegs == 2        \* most segments ffmpeg cuts a large file into
MaxWorkers == 2     \* largest max_concurrent_jobs considered

NumEncodes == 3     \* compressions reporting to one progress aggregator
Scale == 2          \* progress_pct is counted in units of 1/Scale
MaxSize == 2        \* largest file_size_bytes of a worker
MaxClock == 1       \* seconds the clock advances during the compressions
Precision == 8      \* a quotient is rounded to the nearest 1/Precision

NumThreads == 2     \* threads calling the progress aggregator
NumIds == 2         \* worker ids the threads call it with
MaxTotal == 3       \* largest self._total_bytes the calls let it reach

MaxBytes == 3       \* largest file size and threshold of a classification
MaxSetting == 3     \* largest max_workers, max_workers_limit, cpu count
MaxItems == 3       \* longest work list handed to a pool
MaxStreams == 1     \* most video streams of a verified file
MaxGB == 3          \* largest file size and threshold, in GB
MaxSegments == 52   \* most segments segment_video returns for a file

Files == 1..NumFiles
Encodes == 1..NumEncodes
Threads == 1..NumThreads
ApiIds == 1..NumIds
\* progress_pct arguments, in units of 1/Scale: below 0, in [0, 1], above 1
Fractions == (0 - 1)..(Scale + 1)
\* worker ids: single_compress_<second> and [parallel_]segment_<ordinal>
WorkerIds == 0..NumEncodes
\* Parent directories of the input files: one lies under the current
\* working directory, the other does not.
Dirs == {"cwd_dir", "other_dir"}
\* Path(self.config["temp_dir"]), the configured temp directory.
ConfiguredTempDir == "temp_dir"

VARIABLES
    cfg,                \* the configuration read by the compressor
    parent,             \* file -> its parent directory
    large_files,        \* files with size >= threshold_gb
    pc,                 \* file -> position of its Job in its operation
    ret,                \* file -> return value of its operation
    src,                \* file -> the source file exists
    tempOut,            \* file -> temp_output in the per-file temp dir
    final,              \* file -> final_output in the source directory
    compTemp,           \* locations whose compression temp dir exists
    segDirs,            \* locations whose segments dir exists
    segFiles,           \* file -> ordinals of its segment files on disk
    cSeg,               \* file -> ordinal -> compressed segment file
    segState,           \* file -> ordinal -> state of its pool future
    completed_segments, \* file -> ordinals of compressed paths, as appended
    mergeArg,           \* file -> the list handed to merge (<<>> if none)
    vTemp,              \* file -> verification of temp_output passed
    vFinal,             \* file -> verification of final_output passed
    moved,              \* file -> shutil.move to final_output completed
    processed_files,    \* file -> occurrences in self.processed_files
    failed_files,       \* file -> occurrences in self.failed_files
    collected,          \* files whose result the main thread has handled
    orphans,            \* transcoder children left running by a worker
    batch,              \* "running", "returned", "raised"; after a
                        \* KeyboardInterrupt "interrupted", then "cancelled"
    exists,             \* file -> its path existed when the batch started
    dry_run,            \* the dry_run argument of the batch
    entry,              \* the function the batch was started with
    parallel_enabled,   \* self.parallel_enabled
    exit_code,          \* exit code of the process (-1: still running)
    workflow,           \* the code that drives the progress aggregator
    clock,              \* int(time.time()), in seconds since the start
    workers,            \* self._workers: worker id -> record
    total_bytes,        \* self._total_bytes
    enc,                \* encode -> state of the compression reporting it
    lock,               \* self._lock: the thread holding it, 0 if free
    top,                \* thread -> the aggregator call it is executing
    processed,          \* worker id -> processed_bytes of its record
    processed_bytes,    \* self._processed_bytes
    getsize,            \* file -> os.path.getsize of its path
    threshold,          \* large_file_threshold, in the unit of getsize
    small_list,         \* small_files of process_files_parallel, as appended
    large_list,         \* large_files of process_files_parallel, as appended
    classified,         \* paths of file_list the classification has handled
    hung,               \* work items <<file, ordinal>> (ordinal 0: the
                        \* encode of a small file) whose child never exits
    pool,               \* the settings ParallelVideoProcessor.__init__
                        \* reads, max_concurrent_jobs, and the last pool
    psp,                \* one call of process_segments_parallel: its
                        \* futures, their workers and the two result lists
    vfi,                \* one call of verify_file_integrity: what it finds
                        \* and what it returns
    ssf,                \* one file on its way to compression: the sizes
                        \* and probe outcomes, and whether it is segmented
    chan,               \* the segments of one large file between
                        \* segment_video and the segment workers
    shared              \* self.progress_aggregator as the small-file
                        \* workers of one batch use it: which object it
                        \* is and whose records it holds

vars == <<cfg, parent, large_files, pc, ret, src, tempOut, final, compTemp,
          segDirs, segFiles, cSeg, segState, completed_segments, mergeArg,
          vTemp, vFinal, moved, processed_files, failed_files,
          collected, orphans, batch, exists, dry_run, entry,
          parallel_enabled, exit_code, workflow, clock, workers,
          total_bytes, enc, lock, top, processed, processed_bytes,
          getsize, threshold, small_list, large_list, classified, hung,
          pool, psp, vfi, ssf, chan, shared>>

fsVars == <<src, tempOut, final, compTemp, segDirs, segFiles, cSeg>>
segVars == <<segFiles, cSeg, segState, completed_segments, mergeArg>>
histVars == <<vTemp, vFinal, moved>>
mainVars == <<processed_files, failed_files, collected, batch>>
classVars == <<getsize, threshold, small_list, large_list, classified>>
fnVars == <<vfi, ssf, chan, shared>>
inputVars == <<cfg, parent, large_files, classVars, hung, pool, psp, fnVars>>
listVars == <<exists, dry_run, entry, parallel_enabled, exit_code>>
apiVars == <<lock, top, processed, processed_bytes>>
aggVars == <<workflow, clock, workers, total_bytes, enc, apiVars>>

\* ------------------------------------------------------------- helpers
small_files == Files \ large_files

\* min(self.max_concurrent_jobs, len(work))
Min(a, b) == IF a < b THEN a ELSE b

\* temp_dir of process_file and actual_temp_dir of check_disk_space
TempDirOf(f) ==
    IF cfg.use_same_filesystem THEN parent[f] ELSE ConfiguredTempDir

\* segments_dir of segment_video
SegDirOf(f) ==
    IF cfg.use_same_filesystem THEN parent[f] ELSE ConfiguredTempDir

\* temp_dir.name == ".video_compression_temp"
IsCompressionTempName(d) == d \in Dirs

\* Path(".").rglob(".video_compression_temp") finds the directory
UnderCwd(d) == d = "cwd_dir"

\* the files present in the compression temp directory at d
FilesInTemp(d, tmp) == {g \in Files : TempDirOf(g) = d /\ tmp[g] # "none"}

\* the files present in the segments directory of f
SegDirEmpty(f, sf, cs) ==
    \A g \in Files : SegDirOf(g) = SegDirOf(f) =>
        /\ sf[g] = {}
        /\ \A k \in 1..NumSegs : cs[g][k] = "none"

Returned(f) == ret[f] # "none"

\* Jobs whose operation is running in a pool worker or the main thread
Active(f) == pc[f] \notin {"queued", "done"}


Return(f, r) ==
    /\ pc' = [pc EXCEPT ![f] = "done"]
    /\ ret' = [ret EXCEPT ![f] = r]

Goto(f, p) ==
    /\ pc' = [pc EXCEPT ![f] = p]
    /\ UNCHANGED ret

\* ------------------------------------------------------------- Init
\* create_backup_hash is kept at its default: with False the hash step is
\* skipped, which is the behaviour of a hash that succeeds.
Configs ==
    [use_same_filesystem : BOOLEAN,
     verify_integrity : BOOLEAN,
     create_backup_hash : {TRUE},
     delete_original_after_compression : BOOLEAN,
     max_concurrent_jobs : 1..MaxWorkers]

\* The sizing of the pools is not modelled: no setting read, no pool.
NoPool == [pc |-> "none", max_workers_config |-> 0, cpu_cores |-> 0,
           max_workers_limit |-> 0, max_concurrent_jobs |-> 0,
           work |-> "none", items |-> 0, actual_workers |-> 0]

\* No call of process_segments_parallel is followed step by step.
NoCall == [pc |-> "none", n |-> 0,
           futures |-> [e \in Encodes |-> "none"],
           at |-> [e \in Encodes |-> "none"],
           runs |-> [e \in Encodes |-> 0],
           result |-> [e \in Encodes |-> "none"],
           raised |-> {},
           handled |-> {},
           completed_segments |-> <<>>,
           failed_segments |-> <<>>]

\* No call of verify_file_integrity is followed.
NoVerify == [pc |-> "none", exists |-> FALSE, file_size |-> 0,
             video_info |-> FALSE, video_streams |-> 0,
             video_duration |-> 0, original_info |-> FALSE,
             same_streams |-> FALSE, same_resolution |-> FALSE,
             start_ok |-> FALSE, middle_ok |-> FALSE, end_ok |-> FALSE,
             tested |-> {}, ret |-> "none"]

\* No segmentation decision is followed.
NoDecision == [pc |-> "none", path |-> "none", file_size |-> 0,
               threshold_gb |-> 0, segmentation_threshold_gb |-> 0,
               duration_exceeds |-> FALSE, probe_ok |-> FALSE,
               probe_again_ok |-> FALSE, segmented |-> FALSE]

\* No hand-over of segments is followed.
NoHandOver == [pc |-> "none", n |-> 0, pending |-> 0, running |-> 0,
               done |-> 0]

\* No small-file worker is followed on the shared aggregator.
NoShared == [pc |-> "none", clock |-> 0, may_segment |-> FALSE,
             aggregator |-> 0, owner |-> <<>>, segment_owner |-> 0,
             w |-> <<>>, stray |-> FALSE, replaced_under |-> FALSE]

NoFunction ==
    /\ vfi = NoVerify
    /\ ssf = NoDecision
    /\ chan = NoHandOver
    /\ shared = NoShared

\* No classification of a file list by size is modelled.
NoClassification ==
    /\ pool = NoPool
    /\ psp = NoCall
    /\ NoFunction
    /\ getsize = [f \in Files |-> 0]
    /\ threshold = 0
    /\ small_list = <<>>
    /\ large_list = <<>>
    /\ classified = 0

\* No batch entered through process_file_list or a dry run.
NoList ==
    /\ NoClassification
    /\ exists = [f \in Files |-> TRUE]
    /\ dry_run = FALSE
    /\ entry = "process_files_parallel"
    /\ parallel_enabled = TRUE
    /\ exit_code = -1

\* ProgressAggregator.__init__: no worker, _total_bytes = 0.
NoWorker == [status |-> "absent", progress_pct |-> 0, file_size_bytes |-> 0]

EncodeIdle == [phase |-> "idle", worker_id |-> 0, current_progress |-> 0]

\* A thread that is not inside a call of the aggregator.
NoSnapshot == [listed |-> {}, rows |-> <<>>, overall_progress |-> 0,
               active_workers |-> 0, total_workers |-> 0]

ThreadIdle == [pc |-> "idle", w |-> 0, arg |-> 0, snap |-> NoSnapshot,
               at |-> <<>>]

NewAggregator ==
    /\ workers = [w \in WorkerIds |-> NoWorker]
    /\ total_bytes = 0
    /\ lock = 0
    /\ top = [t \in Threads |-> ThreadIdle]
    /\ processed = [w \in WorkerIds |-> 0]
    /\ processed_bytes = 0

NoAggregator ==
    /\ workflow = "none"
    /\ clock = 0
    /\ NewAggregator
    /\ enc = [e \in Encodes |-> EncodeIdle]

\* The Jobs, the directories and the result lists before a batch starts.
BatchStart ==
    /\ pc = [f \in Files |-> "queued"]
    /\ ret = [f \in Files |-> "none"]
    /\ tempOut = [f \in Files |-> "none"]
    /\ final = [f \in Files |-> "none"]
    /\ compTemp = {}
    /\ segDirs = {}
    /\ segFiles = [f \in Files |-> {}]
    /\ cSeg = [f \in Files |-> [k \in 1..NumSegs |-> "none"]]
    /\ segState = [f \in Files |-> [k \in 1..NumSegs |-> "none"]]
    /\ completed_segments = [f \in Files |-> <<>>]
    /\ mergeArg = [f \in Files |-> <<>>]
    /\ vTemp = [f \in Files |-> FALSE]
    /\ vFinal = [f \in Files |-> FALSE]
    /\ moved = [f \in Files |-> FALSE]
    /\ processed_files = [f \in Files |-> 0]
    /\ failed_files = [f \in Files |-> 0]
    /\ collected = {}
    /\ orphans = 0
    /\ batch = "running"
    /\ hung = {}

Init ==
    /\ NoList
    /\ NoAggregator
    /\ cfg \in Configs
    /\ parent \in [Files -> Dirs]
    /\ large_files \in SUBSET Files
    /\ pc = [f \in Files |-> "queued"]
    /\ ret = [f \in Files |-> "none"]
    /\ src = [f \in Files |-> TRUE]
    /\ tempOut = [f \in Files |-> "none"]
    /\ final = [f \in Files |-> "none"]
    /\ compTemp = {}
    /\ segDirs = {}
    /\ segFiles = [f \in Files |-> {}]
    /\ cSeg = [f \in Files |-> [k \in 1..NumSegs |-> "none"]]
    /\ segState = [f \in Files |-> [k \in 1..NumSegs |-> "none"]]
    /\ completed_segments = [f \in Files |-> <<>>]
    /\ mergeArg = [f \in Files |-> <<>>]
    /\ vTemp = [f \in Files |-> FALSE]
    /\ vFinal = [f \in Files |-> FALSE]
    /\ moved = [f \in Files |-> FALSE]
    /\ processed_files = [f \in Files |-> 0]
    /\ failed_files = [f \in Files |-> 0]
    /\ collected = {}
    /\ orphans = 0
    /\ batch = "running"
    /\ hung = {}

\* ------------------------------------------------------------- shared steps
\* check_disk_space: creates the temp directory it measures, also when the
\* space turns out to be insufficient.
CheckDiskSpace(f) ==
    compTemp' = compTemp \cup {TempDirOf(f)}

\* cleanup_temp_files(temp_output): unlink the file if it exists, then
\* remove its directory if it is named .video_compression_temp and empty.
CleanupTempFiles(f) ==
    IF tempOut[f] # "none"
    THEN /\ tempOut' = [tempOut EXCEPT ![f] = "none"]
         /\ compTemp' =
                IF /\ IsCompressionTempName(TempDirOf(f))
                   /\ TempDirOf(f) \in compTemp
                   /\ FilesInTemp(TempDirOf(f), tempOut') = {}
                THEN compTemp \ {TempDirOf(f)}
                ELSE compTemp
    ELSE UNCHANGED <<tempOut, compTemp>>

\* ------------------------------------------------------------- small files
\* _process_small_files_parallel: ThreadPoolExecutor(max_workers =
\* min(max_concurrent_jobs, len(small_files))), jobs taken in list order.
SmallWorkers == Min(cfg.max_concurrent_jobs, Cardinality(small_files))

SmallBusy == Cardinality({g \in small_files : Active(g)})

NextQueuedSmall(f) ==
    /\ f \in small_files
    /\ pc[f] = "queued"
    /\ \A g \in small_files : g < f => pc[g] # "queued"

\* process_file up to the creation of the temp directory.
PF_CheckSpace(f, ok) ==
    /\ batch = "running"
    /\ NextQueuedSmall(f)
    /\ SmallBusy < SmallWorkers
    /\ CheckDiskSpace(f)
    /\ IF ok THEN Goto(f, "compress") ELSE Return(f, "failed")
    /\ UNCHANGED <<inputVars, listVars, aggVars,
                   src, tempOut, final, segDirs, segVars,
                   histVars, mainVars, orphans>>

\* process_file step 1 (the hash of the source, when create_backup_hash) and
\* compress_video up to subprocess.Popen: the probe of the source, then the
\* transcoder child is started and creates temp_output.  Without the temp
\* directory the child cannot create its output and exits at once.
\*   "ok", "hash_fail" (calculate_file_hash returned None),
\*   "probe_fail" (get_video_info returned None)
PF_CompressStart(f, outcome) ==
    /\ pc[f] = "compress"
    /\ outcome = "hash_fail" => cfg.create_backup_hash
    /\ IF outcome = "ok" /\ TempDirOf(f) \in compTemp
       THEN /\ tempOut' = [tempOut EXCEPT ![f] = "partial"]
            /\ Goto(f, "compressing")
            /\ UNCHANGED compTemp
       ELSE /\ CleanupTempFiles(f)
            /\ Return(f, "failed")
    /\ UNCHANGED <<inputVars, listVars, aggVars,
                   src, final, segDirs, segVars, histVars,
                   mainVars, orphans>>

\* compress_video from the monitoring loop to its return, and the handling
\* of its result in process_file.
\*   "ok":    the child exited 0
\*   "fail":  the child exited non-zero
\*   "raise": the monitoring loop raised (elapsed is read before it is
\*            assigned when the first logged update is at most 1%); the
\*            handler returns without terminating the child
PF_CompressEnd(f, outcome) ==
    /\ pc[f] = "compressing"
    /\ IF outcome = "ok"
       THEN /\ tempOut' = [tempOut EXCEPT
                              ![f] = IF @ = "partial" THEN "complete" ELSE @]
            /\ Goto(f, "verify")
            /\ UNCHANGED <<compTemp, orphans>>
       ELSE /\ CleanupTempFiles(f)
            /\ Return(f, "failed")
            /\ orphans' = IF outcome = "raise" THEN orphans + 1 ELSE orphans
    /\ UNCHANGED <<inputVars, listVars, aggVars,
                   src, final, segDirs, segVars, histVars,
                   mainVars>>

\* Step 3 without the verification of temp_output, whatever the value of
\* verify_integrity: only the stat of temp_output remains.
PF_VerifyTemp_Skipped(f, ok) ==
    /\ pc[f] = "verify"
    /\ ok
    /\ IF tempOut[f] = "none"
       THEN Return(f, "failed")
       ELSE Goto(f, "move")
    /\ UNCHANGED <<inputVars, listVars, aggVars,
                   fsVars, segVars, histVars, mainVars, orphans>>

\* process_file step 3: verify temp_output if verify_integrity, then the
\* stat of temp_output (which raises if the file is gone).
PF_VerifyTemp(f, ok) ==
    /\ pc[f] = "verify"
    /\ IF cfg.verify_integrity
       THEN IF ok /\ tempOut[f] = "complete"
            THEN /\ vTemp' = [vTemp EXCEPT ![f] = TRUE]
                 /\ Goto(f, "move")
                 /\ UNCHANGED <<tempOut, compTemp>>
            ELSE /\ CleanupTempFiles(f)
                 /\ Return(f, "failed")
                 /\ UNCHANGED vTemp
       ELSE /\ ok
            /\ IF tempOut[f] = "none"
               THEN Return(f, "failed")
               ELSE Goto(f, "move")
            /\ UNCHANGED <<tempOut, compTemp, vTemp>>
    /\ UNCHANGED <<inputVars, listVars, aggVars,
                   src, final, segDirs, segVars, vFinal, moved,
                   mainVars, orphans>>

\* process_file step 5: move temp_output to final_output.
PF_Move(f, ok) ==
    /\ pc[f] = "move"
    /\ IF tempOut[f] = "none"
       THEN /\ ok
            /\ Return(f, "failed")
            /\ UNCHANGED <<tempOut, compTemp, final, moved>>
       ELSE IF ok
            THEN /\ tempOut' = [tempOut EXCEPT ![f] = "none"]
                 /\ final' = [final EXCEPT ![f] = "complete"]
                 /\ moved' = [moved EXCEPT ![f] = TRUE]
                 /\ Goto(f, "verify_final")
                 /\ UNCHANGED compTemp
            ELSE /\ CleanupTempFiles(f)
                 /\ Return(f, "failed")
                 /\ UNCHANGED <<final, moved>>
    /\ UNCHANGED <<inputVars, listVars, aggVars,
                   src, segDirs, segVars, vTemp, vFinal,
                   mainVars, orphans>>

\* Step 7 placed before step 6: the source is unlinked, then final_output
\* is verified.  The durability of the source on failure rests on the order
\* of these two steps.
PF_VerifyFinal_UnlinkFirst(f, ok) ==
    /\ pc[f] = "verify_final"
    /\ src' = [src EXCEPT ![f] = FALSE]
    /\ IF ok
       THEN /\ vFinal' = [vFinal EXCEPT ![f] = TRUE]
            /\ Goto(f, "delete")
       ELSE /\ Return(f, "failed")
            /\ UNCHANGED vFinal
    /\ UNCHANGED <<inputVars, listVars, aggVars,
                   tempOut, final, compTemp, segDirs, segVars,
                   vTemp, moved, mainVars, orphans>>

\* Step 6 that removes final_output when its verification fails, as the
\* earlier steps remove temp_output.
PF_VerifyFinal_RemoveMoved(f, ok) ==
    /\ pc[f] = "verify_final"
    /\ IF ok
       THEN /\ vFinal' = [vFinal EXCEPT ![f] = TRUE]
            /\ Goto(f, "delete")
            /\ UNCHANGED final
       ELSE /\ Return(f, "failed")
            /\ final' = [final EXCEPT ![f] = "none"]
            /\ UNCHANGED vFinal
    /\ UNCHANGED <<inputVars, listVars, aggVars,
                   src, tempOut, compTemp, segDirs, segVars,
                   vTemp, moved, mainVars, orphans>>

\* process_file step 6: verify final_output; on failure both files stay.
PF_VerifyFinal(f, ok) ==
    /\ pc[f] = "verify_final"
    /\ IF ok
       THEN /\ vFinal' = [vFinal EXCEPT ![f] = TRUE]
            /\ Goto(f, "delete")
       ELSE /\ Return(f, "failed")
            /\ UNCHANGED vFinal
    /\ UNCHANGED <<inputVars, listVars, aggVars,
                   fsVars, segVars, vTemp, moved, mainVars,
                   orphans>>

\* process_file step 7: file_path.unlink().
PF_Delete(f, ok) ==
    /\ pc[f] = "delete"
    /\ IF ok
       THEN /\ src' = [src EXCEPT ![f] = FALSE]
            /\ Goto(f, "cleanup")
       ELSE /\ Return(f, "failed")
            /\ UNCHANGED src
    /\ UNCHANGED <<inputVars, listVars, aggVars,
                   tempOut, final, compTemp, segDirs, segVars,
                   histVars, mainVars, orphans>>

\* process_file step 8: remove every file left in the temp directory, then
\* the directory, when it is named .video_compression_temp.
PF_Cleanup(f) ==
    /\ pc[f] = "cleanup"
    /\ IF TempDirOf(f) \in compTemp /\ IsCompressionTempName(TempDirOf(f))
       THEN /\ tempOut' = [g \in Files |->
                              IF TempDirOf(g) = TempDirOf(f)
                              THEN "none" ELSE tempOut[g]]
            /\ compTemp' = compTemp \ {TempDirOf(f)}
       ELSE UNCHANGED <<tempOut, compTemp>>
    /\ Return(f, "ok")
    /\ UNCHANGED <<inputVars, listVars, aggVars,
                   src, final, segDirs, segVars, histVars,
                   mainVars, orphans>>

\* The as_completed loop of _process_small_files_parallel: record the
\* result, then call progress_callback; an exception of the callback is
\* handled by the loop's except clause, which records a failure.
CollectSmall(f, cb_raises) ==
    /\ batch = "running"
    /\ f \in small_files
    /\ pc[f] = "done"
    /\ f \notin collected
    /\ collected' = collected \cup {f}
    /\ processed_files' =
           IF ret[f] = "ok"
           THEN [processed_files EXCEPT ![f] = @ + 1] ELSE processed_files
    /\ failed_files' =
           [failed_files EXCEPT
               ![f] = @ + (IF ret[f] = "ok" THEN 0 ELSE 1)
                        + (IF cb_raises THEN 1 ELSE 0)]
    /\ UNCHANGED <<inputVars, listVars, aggVars,
                   pc, ret, fsVars, segVars, histVars, orphans,
                   batch>>

\* A transcoder child that its worker no longer waits for exits.
OrphanExit ==
    /\ orphans > 0
    /\ orphans' = orphans - 1
    /\ UNCHANGED <<inputVars, listVars, aggVars,
                   pc, ret, fsVars, segVars, histVars, mainVars>>

\* ------------------------------------------------------------- large files
Range(q) == {q[i] : i \in 1..Len(q)}

\* len(segment_paths) of the Job: the segments segment_video returned
NSeg(f) == Cardinality({k \in 1..NumSegs : segState[f][k] # "none"})

\* process_segments_parallel: ThreadPoolExecutor(max_workers =
\* min(max_concurrent_jobs, len(segments))), futures taken in list order.
SegWorkers(f) == Min(cfg.max_concurrent_jobs, NSeg(f))

SegBusy(f) == Cardinality({k \in 1..NumSegs : segState[f][k] = "running"})

AllSegmentsDone(f) ==
    \A k \in 1..NumSegs : segState[f][k] \in {"none", "ok", "failed"}

\* cleanup_segment_files(segment_paths[, compressed_segments]): unlink the
\* listed files that exist, then remove their directory if it is empty.
CleanupSegmentFiles(f, with_compressed) ==
    /\ segFiles' = [segFiles EXCEPT ![f] = {}]
    /\ cSeg' = [cSeg EXCEPT ![f] =
                   [k \in 1..NumSegs |->
                       IF with_compressed /\ k \in Range(completed_segments[f])
                       THEN "none" ELSE cSeg[f][k]]]
    /\ segDirs' = IF SegDirEmpty(f, segFiles', cSeg')
                  THEN segDirs \ {SegDirOf(f)} ELSE segDirs

\* ffmpeg -f concat -c copy: the output holds the listed segments in the
\* listed order.  "complete": every segment of the source, in source order.
Ascending(q) == \A i, j \in 1..Len(q) : i < j => q[i] < q[j]

MergedContent(q, n) ==
    IF Range(q) # 1..n THEN "missing_segments"
    ELSE IF Ascending(q) THEN "complete" ELSE "misordered"

\* self.segment_parallel: the large files of Spec take the branch
\* _process_large_file_with_parallel_segments.
segment_parallel == TRUE

\* The large-file loop started without waiting for the small-file phase.
NextLarge_NoPhases(f) ==
    /\ f \in large_files
    /\ pc[f] = "queued"
    /\ \A g \in large_files : g < f => g \in collected

\* the for loop of _process_large_files_with_segmentation: one file at a
\* time, in list order, after the small-file phase has returned.
NextLarge(f) ==
    /\ f \in large_files
    /\ pc[f] = "queued"
    /\ small_files \subseteq collected
    /\ \A g \in large_files : g < f => g \in collected

\* _process_large_file_with_parallel_segments: exists and disk space checks.
LF_CheckSpace(f, ok) ==
    /\ batch = "running"
    /\ NextLarge(f)
    /\ CheckDiskSpace(f)
    /\ IF ok THEN Goto(f, "segment") ELSE Return(f, "failed")
    /\ UNCHANGED <<inputVars, listVars, aggVars,
                   src, tempOut, final, segDirs, segVars,
                   histVars, mainVars, orphans>>

\* segment_video: creates the segments directory, runs ffmpeg, returns the
\* n segments found (n = 0: failure, None).
LF_Segment(f, n) ==
    /\ pc[f] = "segment"
    /\ segDirs' = segDirs \cup {SegDirOf(f)}
    /\ IF n = 0
       THEN /\ Return(f, "failed")
            /\ UNCHANGED <<segFiles, segState>>
       ELSE /\ segFiles' = [segFiles EXCEPT ![f] = 1..n]
            /\ segState' = [segState EXCEPT ![f] =
                               [k \in 1..NumSegs |->
                                   IF k <= n THEN "pending" ELSE "none"]]
            /\ Goto(f, "segments")
    /\ UNCHANGED <<inputVars, listVars, aggVars,
                   src, tempOut, final, compTemp, cSeg,
                   completed_segments, mergeArg, histVars, mainVars,
                   orphans>>

\* compress_segment_worker up to subprocess.Popen in
\* compress_single_segment: the probe of the segment, then the child starts.
Seg_Start(f, k, probe_ok) ==
    /\ pc[f] = "segments"
    /\ segState[f][k] = "pending"
    /\ \A j \in 1..NumSegs : j < k => segState[f][j] # "pending"
    /\ SegBusy(f) < SegWorkers(f)
    /\ IF probe_ok
       THEN /\ segState' = [segState EXCEPT ![f][k] = "running"]
            /\ cSeg' = [cSeg EXCEPT ![f][k] = "partial"]
       ELSE /\ segState' = [segState EXCEPT ![f][k] = "failed"]
            /\ UNCHANGED cSeg
    /\ UNCHANGED <<inputVars, listVars, aggVars,
                   pc, ret, src, tempOut, final, compTemp,
                   segDirs, segFiles, completed_segments, mergeArg,
                   histVars, mainVars, orphans>>

\* The child of segment k exits; the as_completed loop of
\* process_segments_parallel appends its output path or its failure.
Seg_End(f, k, ok) ==
    /\ pc[f] = "segments"
    /\ segState[f][k] = "running"
    /\ IF ok
       THEN /\ segState' = [segState EXCEPT ![f][k] = "ok"]
            /\ cSeg' = [cSeg EXCEPT ![f][k] = "complete"]
            /\ completed_segments' =
                   [completed_segments EXCEPT ![f] = Append(@, k)]
       ELSE /\ segState' = [segState EXCEPT ![f][k] = "failed"]
            /\ UNCHANGED <<cSeg, completed_segments>>
    /\ UNCHANGED <<inputVars, listVars, aggVars,
                   pc, ret, src, tempOut, final, compTemp,
                   segDirs, segFiles, mergeArg, histVars, mainVars,
                   orphans>>

\* if not compressed_segments: cleanup_segment_files(segment_paths)
LF_NoSegments(f) ==
    /\ pc[f] = "segments"
    /\ AllSegmentsDone(f)
    /\ completed_segments[f] = <<>>
    /\ CleanupSegmentFiles(f, FALSE)
    /\ Return(f, "failed")
    /\ UNCHANGED <<inputVars, listVars, aggVars,
                   src, tempOut, final, compTemp, segState,
                   completed_segments, mergeArg, histVars, mainVars,
                   orphans>>

\* The merge started while futures of the segment pool are still pending or
\* running.
LF_Merge_Early(f, outcome) ==
    /\ pc[f] = "segments"
    /\ completed_segments[f] # <<>>
    /\ mergeArg' = [mergeArg EXCEPT ![f] = completed_segments[f]]
    /\ IF outcome = "ok"
       THEN /\ final' = [final EXCEPT
                            ![f] = MergedContent(completed_segments[f],
                                                 NSeg(f))]
            /\ Goto(f, "verify_final")
            /\ UNCHANGED <<segFiles, cSeg, segDirs>>
       ELSE /\ final' = [final EXCEPT ![f] =
                            IF outcome = "fail_partial" THEN "partial" ELSE @]
            /\ CleanupSegmentFiles(f, TRUE)
            /\ Return(f, "failed")
    /\ UNCHANGED <<inputVars, listVars, aggVars,
                   src, tempOut, compTemp, segState,
                   completed_segments, histVars, mainVars, orphans>>

\* merge_compressed_segments(compressed_segments, final_output): ffmpeg
\* concat writes final_output in the source directory.
LF_Merge(f, outcome) ==
    /\ pc[f] = "segments"
    /\ AllSegmentsDone(f)
    /\ completed_segments[f] # <<>>
    /\ mergeArg' = [mergeArg EXCEPT ![f] = completed_segments[f]]
    /\ IF outcome = "ok"
       THEN /\ final' = [final EXCEPT
                            ![f] = MergedContent(completed_segments[f],
                                                 NSeg(f))]
            /\ Goto(f, "verify_final")
            /\ UNCHANGED <<segFiles, cSeg, segDirs>>
       ELSE /\ final' = [final EXCEPT ![f] =
                            IF outcome = "fail_partial" THEN "partial" ELSE @]
            /\ CleanupSegmentFiles(f, TRUE)
            /\ Return(f, "failed")
    /\ UNCHANGED <<inputVars, listVars, aggVars,
                   src, tempOut, compTemp, segState,
                   completed_segments, histVars, mainVars, orphans>>

\* Step 4: verify_file_integrity(final_output, original_info)
LF_Verify(f, ok) ==
    /\ f \in large_files
    /\ pc[f] = "verify_final"
    /\ IF ok
       THEN /\ vFinal' = [vFinal EXCEPT ![f] = TRUE]
            /\ Goto(f, "delete")
            /\ UNCHANGED <<segFiles, cSeg, segDirs>>
       ELSE /\ CleanupSegmentFiles(f, TRUE)
            /\ Return(f, "failed")
            /\ UNCHANGED vFinal
    /\ UNCHANGED <<inputVars, listVars, aggVars,
                   src, tempOut, final, compTemp, segState,
                   completed_segments, mergeArg, vTemp, moved,
                   mainVars, orphans>>

\* Step 6: file_path.unlink(); an exception goes to the outer handler.
LF_Delete(f, ok) ==
    /\ f \in large_files
    /\ pc[f] = "delete"
    /\ IF ok
       THEN /\ src' = [src EXCEPT ![f] = FALSE]
            /\ Goto(f, "cleanup")
       ELSE /\ Return(f, "failed")
            /\ UNCHANGED src
    /\ UNCHANGED <<inputVars, listVars, aggVars,
                   tempOut, final, compTemp, segDirs, segVars,
                   histVars, mainVars, orphans>>

\* Step 7: cleanup_segment_files(segment_paths, compressed_segments)
LF_Cleanup(f) ==
    /\ f \in large_files
    /\ pc[f] = "cleanup"
    /\ CleanupSegmentFiles(f, TRUE)
    /\ Return(f, "ok")
    /\ UNCHANGED <<inputVars, listVars, aggVars,
                   src, tempOut, final, compTemp, segState,
                   completed_segments, mergeArg, histVars, mainVars,
                   orphans>>

\* The body of the for loop of _process_large_files_with_segmentation after
\* the Job returned: record the result, then call progress_callback; an
\* exception of the callback is handled by recording a failure.  The lists
\* local to the Job's call are gone once it has returned.
CollectLarge(f, cb_raises) ==
    /\ batch = "running"
    /\ f \in large_files
    /\ pc[f] = "done"
    /\ f \notin collected
    /\ collected' = collected \cup {f}
    /\ processed_files' =
           IF ret[f] = "ok"
           THEN [processed_files EXCEPT ![f] = @ + 1] ELSE processed_files
    /\ failed_files' =
           [failed_files EXCEPT
               ![f] = @ + (IF ret[f] = "ok" THEN 0 ELSE 1)
                        + (IF cb_raises THEN 1 ELSE 0)]
    /\ segState' = [segState EXCEPT ![f] = [k \in 1..NumSegs |-> "none"]]
    /\ completed_segments' = [completed_segments EXCEPT ![f] = <<>>]
    /\ mergeArg' = [mergeArg EXCEPT ![f] = <<>>]
    /\ UNCHANGED <<inputVars, listVars, aggVars,
                   pc, ret, fsVars, histVars, orphans, batch>>

\* ------------------------------------------------------------- batch end
\* cleanup_all_temp_directories: every .video_compression_temp found under
\* the current working directory is emptied and removed.
CleanupAllTempDirectories ==
    /\ tempOut' = [g \in Files |->
                      IF /\ TempDirOf(g) \in compTemp
                         /\ IsCompressionTempName(TempDirOf(g))
                         /\ UnderCwd(TempDirOf(g))
                      THEN "none" ELSE tempOut[g]]
    /\ compTemp' = {d \in compTemp :
                       ~(IsCompressionTempName(d) /\ UnderCwd(d))}

\* The end of process_files_parallel: the final progress_callback(1.0),
\* whose exception leaves the function, then the final cleanup.
FinalCleanup(cb_raises) ==
    /\ batch = "running"
    /\ collected = Files
    /\ IF cb_raises
       THEN /\ batch' = "raised"
            /\ UNCHANGED <<tempOut, compTemp>>
       ELSE /\ batch' = "returned"
            /\ CleanupAllTempDirectories
    /\ UNCHANGED <<inputVars, listVars, aggVars,
                   pc, ret, src, final, segDirs, segVars,
                   histVars, processed_files, failed_files, collected,
                   orphans>>

\* ------------------------------------------------------------- file list
\* A batch run by process_file_list: called by main, or by
\* process_files_parallel when parallel processing is disabled.  The files
\* are handled by process_file one after the other, in list order; the size
\* classes play no part.  A dry run of process_files_parallel with parallel
\* processing enabled is the third case.
InitList ==
    /\ NoClassification
    /\ NoAggregator
    /\ BatchStart
    /\ cfg \in Configs
    /\ cfg.max_concurrent_jobs = 1
    /\ parent \in [Files -> Dirs]
    /\ large_files = {}
    /\ exists \in [Files -> BOOLEAN]
    /\ src = exists
    /\ dry_run \in BOOLEAN
    /\ entry \in {"main", "process_files_parallel"}
    /\ parallel_enabled \in BOOLEAN
    /\ entry = "main" => ~parallel_enabled
    /\ entry = "process_files_parallel" /\ parallel_enabled => dry_run
    /\ exit_code = -1

\* if not self.parallel_enabled: return self.process_file_list(...)
Sequential == ~(entry = "process_files_parallel" /\ parallel_enabled)

\* for i, file_path in enumerate(file_list, 1)
NextListed(f) ==
    /\ pc[f] = "queued"
    /\ \A g \in Files : g < f => g \in collected

\* process_files_parallel with dry_run: the files are classified, the
\* strategy is logged, and the function returns.
PFP_DryRun ==
    /\ batch = "running"
    /\ ~Sequential
    /\ dry_run
    /\ batch' = "returned"
    /\ UNCHANGED <<inputVars, listVars, aggVars, pc, ret, fsVars, segVars,
                   histVars, processed_files, failed_files, collected,
                   orphans>>

\* process_file without the dry-run return: the dry_run argument is not
\* looked at and the file goes on to the compression.
PFL_ProcessFile_NoDryRun(f, space_ok) ==
    /\ batch = "running"
    /\ Sequential
    /\ NextListed(f)
    /\ IF ~src[f]
       THEN /\ space_ok
            /\ batch' = "raised"
            /\ Return(f, "raised")
            /\ UNCHANGED compTemp
       ELSE /\ CheckDiskSpace(f)
            /\ UNCHANGED batch
            /\ IF ~space_ok THEN Return(f, "failed")
               ELSE Goto(f, "compress")
    /\ UNCHANGED <<inputVars, listVars, aggVars, src, tempOut, final,
                   segDirs, segVars, histVars, processed_files,
                   failed_files, collected, orphans>>

\* The loop body of process_file_list up to its call of process_file, and
\* process_file up to the dry-run return: os.path.getsize(file_path) raises
\* for a path that does not exist, before the exists() check, and nothing
\* in process_file_list catches it; then check_disk_space, the temp
\* directory, and the return of a dry run.
PFL_ProcessFile(f, space_ok) ==
    /\ batch = "running"
    /\ Sequential
    /\ NextListed(f)
    /\ IF ~src[f]
       THEN /\ space_ok
            /\ batch' = "raised"
            /\ Return(f, "raised")
            /\ UNCHANGED compTemp
       ELSE /\ CheckDiskSpace(f)
            /\ UNCHANGED batch
            /\ IF ~space_ok THEN Return(f, "failed")
               ELSE IF dry_run THEN Return(f, "ok")
               ELSE Goto(f, "compress")
    /\ UNCHANGED <<inputVars, listVars, aggVars, src, tempOut, final,
                   segDirs, segVars, histVars, processed_files,
                   failed_files, collected, orphans>>

\* The loop body of process_file_list after process_file returned.
PFL_Collect(f) ==
    /\ batch = "running"
    /\ Sequential
    /\ pc[f] = "done"
    /\ f \notin collected
    /\ collected' = collected \cup {f}
    /\ processed_files' =
           IF ret[f] = "ok"
           THEN [processed_files EXCEPT ![f] = @ + 1] ELSE processed_files
    /\ failed_files' =
           IF ret[f] = "ok"
           THEN failed_files ELSE [failed_files EXCEPT ![f] = @ + 1]
    /\ UNCHANGED <<inputVars, listVars, aggVars, pc, ret, fsVars, segVars,
                   histVars, orphans, batch>>

\* The end of process_file_list: the summary and the final cleanup.
PFL_Final ==
    /\ batch = "running"
    /\ Sequential
    /\ collected = Files
    /\ CleanupAllTempDirectories
    /\ batch' = "returned"
    /\ UNCHANGED <<inputVars, listVars, aggVars, pc, ret, src, final,
                   segDirs, segVars, histVars, processed_files,
                   failed_files, collected, orphans>>

\* The end of main: the function returns after process_file_list returned
\* (exit code 0); an exception that left process_file_list ends the process
\* with a traceback (exit code 1).
Main_Exit ==
    /\ entry = "main"
    /\ batch # "running"
    /\ exit_code = -1
    /\ exit_code' = IF batch = "raised" THEN 1 ELSE 0
    /\ UNCHANGED <<inputVars, exists, dry_run, entry, parallel_enabled,
                   aggVars, pc, ret, fsVars, segVars, histVars, mainVars,
                   orphans>>

NextList ==
    \/ PFP_DryRun
    \/ \E f \in Files, ok \in BOOLEAN : PFL_ProcessFile(f, ok)
    \/ \E f \in Files, o \in {"ok", "hash_fail", "probe_fail"} :
           PF_CompressStart(f, o)
    \/ \E f \in Files, o \in {"ok", "fail", "raise"} : PF_CompressEnd(f, o)
    \/ \E f \in Files, ok \in BOOLEAN : PF_VerifyTemp(f, ok)
    \/ \E f \in Files, ok \in BOOLEAN : PF_Move(f, ok)
    \/ \E f \in Files, ok \in BOOLEAN : PF_VerifyFinal(f, ok)
    \/ \E f \in Files, ok \in BOOLEAN : PF_Delete(f, ok)
    \/ \E f \in Files : PF_Cleanup(f)
    \/ OrphanExit
    \/ \E f \in Files : PFL_Collect(f)
    \/ PFL_Final
    \/ Main_Exit

SpecList == InitList /\ [][NextList]_vars

\* ------------------------------------------------------------- progress
\* ProgressAggregator and the code that reports to it.  progress_pct is
\* counted in units of 1/Scale.  The quotient file_size_bytes / _total_bytes
\* is a float: it is rounded to the nearest representable value, here the
\* nearest multiple of 1/Precision, ties to even.
RoundDiv(a, b) ==
    LET q == a \div b
        r == a % b
    IN  IF 2 * r > b THEN q + 1
        ELSE IF 2 * r < b THEN q
        ELSE q + (q % 2)

\* weight = worker['file_size_bytes'] / self._total_bytes
Weight(w) == RoundDiv(workers[w].file_size_bytes * Precision, total_bytes)

RECURSIVE WeightedSum(_)
WeightedSum(W) ==
    IF W = {} THEN 0
    ELSE LET w == CHOOSE x \in W : TRUE
         IN  workers[w].progress_pct * Weight(w) + WeightedSum(W \ {w})

Registered == {w \in WorkerIds : workers[w].status # "absent"}

\* get_aggregate_progress()['overall_progress'], in units of
\* 1/(Scale * Precision)
overall_progress ==
    IF total_bytes = 0 THEN 0 ELSE WeightedSum(Registered)

One == Scale * Precision

register_worker(w, file_size_bytes) ==
    /\ workers' = [workers EXCEPT ![w] =
                      [status |-> "starting", progress_pct |-> 0,
                       file_size_bytes |-> file_size_bytes]]
    /\ total_bytes' = total_bytes + file_size_bytes

update_worker_progress(w, p) ==
    /\ workers' =
           IF workers[w].status = "absent" THEN workers
           ELSE [workers EXCEPT
                    ![w].progress_pct = Min(p, Scale),
                    ![w].status = IF p < Scale THEN "processing"
                                  ELSE "completed"]
    /\ UNCHANGED total_bytes

complete_worker(w) ==
    /\ workers' =
           IF workers[w].status = "absent" THEN workers
           ELSE [workers EXCEPT ![w].status = "completed",
                                ![w].progress_pct = Scale]
    /\ UNCHANGED total_bytes

fail_worker(w) ==
    /\ workers' =
           IF workers[w].status = "absent" THEN workers
           ELSE [workers EXCEPT ![w].status = "failed"]
    /\ UNCHANGED total_bytes

\* self._total_bytes += file_size_bytes, over the registered segments
RECURSIVE WeightedSize(_, _)
WeightedSize(sizes, E) ==
    IF E = {} THEN 0
    ELSE LET e == CHOOSE x \in E : TRUE
         IN  sizes[e] + WeightedSize(sizes, E \ {e})

\* Everything but the aggregator and its reporters.
batchVars == <<inputVars, listVars, pc, ret, fsVars, segState,
               completed_segments, mergeArg, histVars, mainVars, orphans>>

\* "files": compress_video calls of the files of a batch, in the threads of
\* the small-file pool or one after the other, on the aggregator of the
\* compressor.  "segments": process_segments_parallel on a new aggregator.
InitAgg ==
    /\ NoList
    /\ BatchStart
    /\ cfg \in Configs
    /\ cfg.max_concurrent_jobs = MaxWorkers
    /\ cfg.use_same_filesystem /\ cfg.verify_integrity
    /\ cfg.delete_original_after_compression
    /\ parent = [f \in Files |-> "cwd_dir"]
    /\ large_files = {}
    /\ src = [f \in Files |-> TRUE]
    /\ workflow \in {"files", "segments"}
    /\ clock = 0
    /\ NewAggregator
    /\ enc = [e \in Encodes |-> EncodeIdle]

\* time.time() passes a whole second.
Tick ==
    /\ workflow = "files"
    /\ clock < MaxClock
    /\ clock' = clock + 1
    /\ UNCHANGED <<batchVars, apiVars, workflow, workers, total_bytes, enc>>

\* compress_video: worker_id = f"single_compress_{int(time.time())}", then
\* register_worker(worker_id, task_name, file_size).
CV_Register(e, file_size) ==
    /\ workflow = "files"
    /\ enc[e].phase = "idle"
    /\ register_worker(clock, file_size)
    /\ enc' = [enc EXCEPT ![e] = [phase |-> "running", worker_id |-> clock,
                                  current_progress |-> 0]]
    /\ UNCHANGED <<batchVars, apiVars, workflow, clock>>

\* The transcoder writes a progress line with time = p * duration;
\* monitor_stderr forwards it only if it exceeds the last forwarded value,
\* and the monitoring loop calls update_worker_progress with it.
CV_Progress(e, p) ==
    /\ workflow = "files"
    /\ enc[e].phase = "running"
    /\ p > enc[e].current_progress
    /\ update_worker_progress(enc[e].worker_id, p)
    /\ enc' = [enc EXCEPT ![e].current_progress = p]
    /\ UNCHANGED <<batchVars, apiVars, workflow, clock>>

\* The child exited: complete_worker on return code 0, else fail_worker.
CV_End(e, ok) ==
    /\ workflow = "files"
    /\ enc[e].phase = "running"
    /\ IF ok THEN complete_worker(enc[e].worker_id)
       ELSE fail_worker(enc[e].worker_id)
    /\ enc' = [enc EXCEPT ![e].phase = "done"]
    /\ UNCHANGED <<batchVars, apiVars, workflow, clock>>

\* process_segments_parallel: a new aggregator, and every segment
\* registered as parallel_segment_<ordinal> with its size.
PS_RegisterAll(sizes) ==
    /\ workflow = "segments"
    /\ \A e \in Encodes : enc[e].phase = "idle"
    /\ workers' = [w \in WorkerIds |->
                      IF w \in Encodes
                      THEN [status |-> "starting", progress_pct |-> 0,
                            file_size_bytes |-> sizes[w]]
                      ELSE NoWorker]
    /\ total_bytes' = WeightedSize(sizes, Encodes)
    /\ enc' = [e \in Encodes |-> [phase |-> "running", worker_id |-> e,
                                  current_progress |-> 0]]
    /\ UNCHANGED <<batchVars, apiVars, workflow, clock>>

\* compress_single_segment: a progress line forwarded by
\* monitor_segment_stderr reaches segment_progress.
CS_Progress(e, p) ==
    /\ workflow = "segments"
    /\ enc[e].phase = "running"
    /\ p > enc[e].current_progress
    /\ update_worker_progress(enc[e].worker_id, p)
    /\ enc' = [enc EXCEPT ![e].current_progress = p]
    /\ UNCHANGED <<batchVars, apiVars, workflow, clock>>

\* compress_single_segment after the monitoring loop: the final
\* progress_callback(1.0), made before the return code is looked at.
CS_FinalCallback(e) ==
    /\ workflow = "segments"
    /\ enc[e].phase = "running"
    /\ update_worker_progress(enc[e].worker_id, Scale)
    /\ enc' = [enc EXCEPT ![e].phase = "exited"]
    /\ UNCHANGED <<batchVars, apiVars, workflow, clock>>

\* compress_segment_worker after compress_single_segment returned:
\*   "ok": return code 0, complete_worker
\*   "fail": return code not 0, fail_worker
\*   "probe_fail": the segment could not be probed, no child was started
\*                 and no callback made, fail_worker
CS_End(e, outcome) ==
    /\ workflow = "segments"
    /\ IF outcome = "probe_fail"
       THEN enc[e].phase = "running" /\ enc[e].current_progress = 0
       ELSE enc[e].phase = "exited"
    /\ IF outcome = "ok" THEN complete_worker(enc[e].worker_id)
       ELSE fail_worker(enc[e].worker_id)
    /\ enc' = [enc EXCEPT ![e].phase = "done"]
    /\ UNCHANGED <<batchVars, apiVars, workflow, clock>>

NextAgg ==
    \/ Tick
    \/ \E e \in Encodes, z \in 1..MaxSize : CV_Register(e, z)
    \/ \E e \in Encodes, p \in 0..Scale : CV_Progress(e, p)
    \/ \E e \in Encodes, ok \in BOOLEAN : CV_End(e, ok)
    \/ \E sizes \in [Encodes -> 1..MaxSize] : PS_RegisterAll(sizes)
    \/ \E e \in Encodes, p \in 0..Scale : CS_Progress(e, p)
    \/ \E e \in Encodes : CS_FinalCallback(e)
    \/ \E e \in Encodes, o \in {"ok", "fail", "probe_fail"} : CS_End(e, o)

SpecAgg == InitAgg /\ [][NextAgg]_vars

\* ------------------------------------------------------------- API calls
\* The methods of ProgressAggregator called from NumThreads threads, one
\* step per statement.  Every method body runs under `with self._lock`.
\* processed_bytes is counted in units of 1/Scale.

\* with self._lock: the thread enters when the lock is free.
Acquire(t) ==
    /\ top[t].pc = "idle"
    /\ lock = 0

\* the end of the with block, and the return of the call
Release(t) ==
    /\ lock' = IF lock = t THEN 0 ELSE lock
    /\ top' = [top EXCEPT ![t] = ThreadIdle]

\* Positions of a thread at which it is not partway through the writes of
\* a method.
ReadingPcs == {"idle", "absent", "s_read", "s_returned"}

\* What the caller of the aggregator sees of its state.
AggregatorState ==
    [workers |-> workers, total_bytes |-> total_bytes,
     processed_bytes |-> processed_bytes,
     processed |-> processed,
     quiet |-> \A u \in Threads : top[u].pc \in ReadingPcs]

apiFrame == <<batchVars, workflow, clock, enc>>

\* register_worker(worker_id, task_name, file_size_bytes): the record is
\* stored,
API_RegisterInsert(t, w, file_size_bytes) ==
    /\ Acquire(t)
    /\ lock' = t
    /\ total_bytes + file_size_bytes <= MaxTotal
    /\ workers' = [workers EXCEPT ![w] =
                      [status |-> "starting", progress_pct |-> 0,
                       file_size_bytes |-> file_size_bytes]]
    /\ processed' = [processed EXCEPT ![w] = 0]
    /\ top' = [top EXCEPT ![t].pc = "r_total", ![t].w = w,
                          ![t].arg = file_size_bytes]
    /\ UNCHANGED <<apiFrame, total_bytes, processed_bytes>>

\* then self._total_bytes += file_size_bytes.
API_RegisterTotal(t) ==
    /\ top[t].pc = "r_total"
    /\ total_bytes' = total_bytes + top[t].arg
    /\ Release(t)
    /\ UNCHANGED <<apiFrame, workers, processed, processed_bytes>>

\* update_worker_progress without the test `worker_id not in self._workers`
API_UpdateBegin_NoCheck(t, w, p) ==
    /\ Acquire(t)
    /\ lock' = t
    /\ workers' = [workers EXCEPT ![w].progress_pct = Min(p, Scale)]
    /\ top' = [top EXCEPT ![t].pc = "u_status", ![t].w = w, ![t].arg = p]
    /\ UNCHANGED <<apiFrame, total_bytes, processed, processed_bytes>>

\* update_worker_progress(worker_id, progress_pct): an id that is not in
\* self._workers returns at once,
API_UpdateBegin(t, w, p) ==
    /\ Acquire(t)
    /\ lock' = t
    /\ IF workers[w].status = "absent"
       THEN /\ top' = [top EXCEPT ![t].pc = "absent", ![t].w = w]
            /\ UNCHANGED workers
       ELSE /\ workers' = [workers EXCEPT ![w].progress_pct = Min(p, Scale)]
            /\ top' = [top EXCEPT ![t].pc = "u_status", ![t].w = w,
                                  ![t].arg = p]
    /\ UNCHANGED <<apiFrame, total_bytes, processed, processed_bytes>>

\* worker['status'] = 'processing' if progress_pct < 1.0 else 'completed'
API_UpdateStatus(t) ==
    /\ top[t].pc = "u_status"
    /\ workers' = [workers EXCEPT ![top[t].w].status =
                      IF top[t].arg < Scale THEN "processing"
                      ELSE "completed"]
    /\ top' = [top EXCEPT ![t].pc = "u_processed"]
    /\ UNCHANGED <<apiFrame, lock, total_bytes, processed, processed_bytes>>

\* new_processed = worker['file_size_bytes'] * progress_pct, stored in the
\* record and added to self._processed_bytes as a difference.
API_UpdateProcessed(t) ==
    /\ top[t].pc = "u_processed"
    /\ LET w == top[t].w
           new_processed == workers[w].file_size_bytes * top[t].arg
       IN  /\ processed' = [processed EXCEPT ![w] = new_processed]
           /\ processed_bytes' =
                  processed_bytes + (new_processed - processed[w])
    /\ Release(t)
    /\ UNCHANGED <<apiFrame, workers, total_bytes>>

\* complete_worker(worker_id) and fail_worker(worker_id, error_message):
\* nothing is done for an id that is not in self._workers; else the status
\* is set,
API_EndBegin(t, w, ok) ==
    /\ Acquire(t)
    /\ lock' = t
    /\ IF workers[w].status = "absent"
       THEN /\ top' = [top EXCEPT ![t].pc = "absent", ![t].w = w]
            /\ UNCHANGED workers
       ELSE /\ workers' = [workers EXCEPT ![w].status =
                              IF ok THEN "completed" ELSE "failed"]
            /\ top' = [top EXCEPT ![t].pc = IF ok THEN "c_progress"
                                          ELSE "notify",
                                  ![t].w = w]
    /\ UNCHANGED <<apiFrame, total_bytes, processed, processed_bytes>>

\* The return of a call whose worker id is not in self._workers.
API_AbsentReturn(t) ==
    /\ top[t].pc = "absent"
    /\ Release(t)
    /\ UNCHANGED <<apiFrame, workers, total_bytes, processed,
                   processed_bytes>>

\* complete_worker: self._workers[worker_id]['progress_pct'] = 1.0
API_CompleteProgress(t) ==
    /\ top[t].pc = "c_progress"
    /\ workers' = [workers EXCEPT ![top[t].w].progress_pct = Scale]
    /\ top' = [top EXCEPT ![t].pc = "notify"]
    /\ UNCHANGED <<apiFrame, lock, total_bytes, processed, processed_bytes>>

\* The first statements of get_aggregate_progress, for a snapshot that
\* starts in the state `st`: with self._total_bytes == 0 it returns at once
\* with an empty list of workers.
SnapshotStart(t, st) ==
    IF total_bytes = 0
    THEN top' = [top EXCEPT ![t].pc = "s_returned", ![t].at = st,
                   ![t].snap = [NoSnapshot EXCEPT
                       !.total_workers = Cardinality(Registered)]]
    ELSE top' = [top EXCEPT ![t].pc = "s_read", ![t].w = 0, ![t].at = st,
                            ![t].snap = NoSnapshot]

\* self.notify_callback() at the end of complete_worker and fail_worker,
\* inside the with block: the snapshot for the callback is started.
API_Notify(t) ==
    /\ top[t].pc = "notify"
    /\ SnapshotStart(t, [AggregatorState EXCEPT
                            !.quiet = \A u \in Threads \ {t} :
                                top[u].pc \in ReadingPcs])
    /\ UNCHANGED <<apiFrame, lock, workers, total_bytes, processed,
                   processed_bytes>>

\* get_aggregate_progress() called by a thread.
API_SnapshotBegin(t) ==
    /\ Acquire(t)
    /\ lock' = t
    /\ SnapshotStart(t, AggregatorState)
    /\ UNCHANGED <<apiFrame, workers, total_bytes, processed,
                   processed_bytes>>

\* One round of `for worker_id, worker in self._workers.items()`: the next
\* worker id after the last one read.
NextRow(t) ==
    IF \E w \in Registered : w > top[t].w
    THEN CHOOSE w \in Registered :
             /\ w > top[t].w
             /\ \A v \in Registered : v > top[t].w => w <= v
    ELSE 0

API_SnapshotRead(t) ==
    /\ top[t].pc = "s_read"
    /\ NextRow(t) # 0
    /\ LET w == NextRow(t)
           sn == top[t].snap
       IN  top' = [top EXCEPT
               ![t].w = w,
               ![t].snap = [sn EXCEPT
                   !.listed = sn.listed \cup {w},
                   !.rows = Append(sn.rows,
                                [id |-> w,
                                 progress_pct |-> workers[w].progress_pct,
                                 status |-> workers[w].status]),
                   !.overall_progress =
                       sn.overall_progress
                           + workers[w].progress_pct * Weight(w),
                   !.active_workers =
                       sn.active_workers
                           + (IF workers[w].status = "processing"
                              THEN 1 ELSE 0)]]
    /\ UNCHANGED <<apiFrame, lock, workers, total_bytes, processed,
                   processed_bytes>>

\* The return of get_aggregate_progress after the loop.
API_SnapshotReturn(t) ==
    /\ top[t].pc = "s_read"
    /\ NextRow(t) = 0
    /\ top' = [top EXCEPT
           ![t].pc = "s_returned",
           ![t].snap = [top[t].snap EXCEPT
                           !.total_workers = Cardinality(Registered)]]
    /\ UNCHANGED <<apiFrame, lock, workers, total_bytes, processed,
                   processed_bytes>>

\* The caller (or the callback) has the snapshot; the lock is released.
API_SnapshotDone(t) ==
    /\ top[t].pc = "s_returned"
    /\ Release(t)
    /\ UNCHANGED <<apiFrame, workers, total_bytes, processed,
                   processed_bytes>>

InitApi ==
    /\ NoList
    /\ BatchStart
    /\ cfg \in Configs
    /\ cfg.max_concurrent_jobs = MaxWorkers
    /\ cfg.use_same_filesystem /\ cfg.verify_integrity
    /\ cfg.delete_original_after_compression
    /\ parent = [f \in Files |-> "cwd_dir"]
    /\ large_files = {}
    /\ src = [f \in Files |-> TRUE]
    /\ workflow = "api"
    /\ clock = 0
    /\ NewAggregator
    /\ enc = [e \in Encodes |-> EncodeIdle]

NextApi ==
    \/ \E t \in Threads, w \in ApiIds, z \in 0..MaxSize :
           API_RegisterInsert(t, w, z)
    \/ \E t \in Threads : API_RegisterTotal(t)
    \/ \E t \in Threads, w \in ApiIds, p \in Fractions :
           API_UpdateBegin(t, w, p)
    \/ \E t \in Threads : API_UpdateStatus(t)
    \/ \E t \in Threads : API_UpdateProcessed(t)
    \/ \E t \in Threads, w \in ApiIds, ok \in BOOLEAN : API_EndBegin(t, w, ok)
    \/ \E t \in Threads : API_AbsentReturn(t)
    \/ \E t \in Threads : API_CompleteProgress(t)
    \/ \E t \in Threads : API_Notify(t)
    \/ \E t \in Threads : API_SnapshotBegin(t)
    \/ \E t \in Threads : API_SnapshotRead(t)
    \/ \E t \in Threads : API_SnapshotReturn(t)
    \/ \E t \in Threads : API_SnapshotDone(t)

SpecApi == InitApi /\ [][NextApi]_vars

\* ------------------------------------------------------------- classification
\* The categorisation loop of process_files_parallel, with parallel
\* processing enabled: file_list is the paths 1..NumFiles in order.
InitClassify ==
    /\ NoAggregator
    /\ BatchStart
    /\ cfg \in Configs
    /\ cfg.max_concurrent_jobs = MaxWorkers
    /\ cfg.use_same_filesystem /\ cfg.verify_integrity
    /\ cfg.delete_original_after_compression
    /\ parent = [f \in Files |-> "cwd_dir"]
    /\ large_files = {}
    /\ exists \in [Files -> BOOLEAN]
    /\ src = exists
    /\ dry_run = FALSE
    /\ entry = "process_files_parallel"
    /\ parallel_enabled = TRUE
    /\ exit_code = -1
    /\ getsize \in [Files -> 0..MaxBytes]
    /\ threshold \in 0..MaxBytes
    /\ small_list = <<>>
    /\ large_list = <<>>
    /\ classified = 0
    /\ pool = NoPool
    /\ psp = NoCall
    /\ NoFunction

\* One round of `for file_path in file_list` with `file_size > threshold`
\* in the place of `file_size >= large_file_threshold`.
PFP_Classify_StrictlyAbove(f) ==
    /\ entry = "process_files_parallel" /\ parallel_enabled
    /\ f = classified + 1
    /\ classified' = f
    /\ IF exists[f]
       THEN IF getsize[f] > threshold
            THEN /\ large_list' = Append(large_list, f)
                 /\ UNCHANGED small_list
            ELSE /\ small_list' = Append(small_list, f)
                 /\ UNCHANGED large_list
       ELSE UNCHANGED <<small_list, large_list>>
    /\ UNCHANGED <<cfg, parent, large_files, hung, pool, psp, fnVars,
                   getsize, threshold,
                   listVars,
                   aggVars, pc, ret, fsVars, segState, completed_segments,
                   mergeArg, histVars, mainVars, orphans>>

\* One round of `for file_path in file_list`: an existing path is appended
\* to large_files if file_size >= large_file_threshold, else to
\* small_files; a missing path is logged and skipped.
PFP_Classify(f) ==
    /\ entry = "process_files_parallel" /\ parallel_enabled
    /\ f = classified + 1
    /\ classified' = f
    /\ IF exists[f]
       THEN IF getsize[f] >= threshold
            THEN /\ large_list' = Append(large_list, f)
                 /\ UNCHANGED small_list
            ELSE /\ small_list' = Append(small_list, f)
                 /\ UNCHANGED large_list
       ELSE UNCHANGED <<small_list, large_list>>
    /\ UNCHANGED <<cfg, parent, large_files, hung, pool, psp, fnVars,
                   getsize, threshold,
                   listVars,
                   aggVars, pc, ret, fsVars, segState, completed_segments,
                   mergeArg, histVars, mainVars, orphans>>

\* The loop is over: the two lists are what the phases work on.
PFP_Classified ==
    /\ classified = NumFiles
    /\ large_files # Range(large_list)
    /\ large_files' = Range(large_list)
    /\ UNCHANGED <<cfg, parent, classVars, hung, pool, psp, fnVars, listVars,
                   aggVars, pc, ret, fsVars, segState, completed_segments,
                   mergeArg, histVars, mainVars, orphans>>

NextClassify ==
    \/ \E f \in Files : PFP_Classify(f)
    \/ PFP_Classified

SpecClassify == InitClassify /\ [][NextClassify]_vars

\* ------------------------------------------------------------- pool sizing
\* ParallelVideoProcessor.__init__ and the two places that create a
\* ThreadPoolExecutor.  The settings are whatever the configuration file
\* holds (load_config does not validate them); cpu_count() is at least 1.
Max(a, b) == IF a > b THEN a ELSE b

InitPool ==
    /\ NoAggregator
    /\ BatchStart
    /\ cfg \in Configs
    /\ cfg.max_concurrent_jobs = MaxWorkers
    /\ cfg.use_same_filesystem /\ cfg.verify_integrity
    /\ cfg.delete_original_after_compression
    /\ parent = [f \in Files |-> "cwd_dir"]
    /\ large_files = {}
    /\ exists = [f \in Files |-> TRUE]
    /\ src = exists
    /\ dry_run = FALSE
    /\ entry = "process_files_parallel"
    /\ parallel_enabled \in BOOLEAN
    /\ exit_code = -1
    /\ getsize = [f \in Files |-> 0]
    /\ threshold = 0
    /\ small_list = <<>>
    /\ large_list = <<>>
    /\ classified = 0
    /\ psp = NoCall
    /\ NoFunction
    /\ \E mw \in 0..MaxSetting, lim \in 0..MaxSetting, cpu \in 1..MaxSetting :
           pool = [NoPool EXCEPT !.pc = "config",
                                 !.max_workers_config = mw,
                                 !.max_workers_limit = lim,
                                 !.cpu_cores = cpu]

poolFrame == <<cfg, parent, large_files, classVars, hung, psp, fnVars,
               listVars, aggVars,
               pc, ret, fsVars, segState, completed_segments, mergeArg,
               histVars, mainVars, orphans>>

\* __init__ without the second assignment, the cap at max_workers_limit.
PVP_Init_NoLimit ==
    /\ pool.pc = "config"
    /\ pool' = [pool EXCEPT
                  !.pc = "ready",
                  !.max_concurrent_jobs =
                      Max(1, Min(pool.max_workers_config, pool.cpu_cores))]
    /\ UNCHANGED poolFrame

\* __init__: min(max_workers_config, cpu_cores), then
\* max(1, min(self.max_concurrent_jobs, max_workers_limit)).
PVP_Init ==
    /\ pool.pc = "config"
    /\ pool' = [pool EXCEPT
                  !.pc = "ready",
                  !.max_concurrent_jobs =
                      Max(1, Min(Min(pool.max_workers_config, pool.cpu_cores),
                                 pool.max_workers_limit))]
    /\ UNCHANGED poolFrame

\* _process_small_files_parallel on n small files, which the dispatcher
\* calls with a non-empty list and parallel processing enabled: a pool of
\* min(self.max_concurrent_jobs, len(small_files)) workers.
SFP_Pool(n) ==
    /\ pool.pc = "ready"
    /\ parallel_enabled
    /\ pool' = [pool EXCEPT
                  !.pc = "pool", !.work = "small_files", !.items = n,
                  !.actual_workers = Min(pool.max_concurrent_jobs, n)]
    /\ UNCHANGED poolFrame

\* process_segments_parallel on n segments: with parallel processing
\* disabled or a single segment it hands the list to
\* _process_segments_sequential, which creates no pool; otherwise a pool of
\* min(self.max_concurrent_jobs, len(segments)) workers.
PSP_Pool(n) ==
    /\ pool.pc = "ready"
    /\ IF ~parallel_enabled \/ n = 1
       THEN pool' = [pool EXCEPT
                       !.pc = "sequential", !.work = "segments", !.items = n]
       ELSE pool' = [pool EXCEPT
                       !.pc = "pool", !.work = "segments", !.items = n,
                       !.actual_workers = Min(pool.max_concurrent_jobs, n)]
    /\ UNCHANGED poolFrame

NextPool ==
    \/ PVP_Init
    \/ \E n \in 1..MaxItems : SFP_Pool(n)
    \/ \E n \in 1..MaxItems : PSP_Pool(n)

SpecPool == InitPool /\ [][NextPool]_vars

\* ------------------------------------------------------------- segment pool
\* One call of process_segments_parallel on segments 1..n, n >= 2, with
\* parallel processing enabled and no progress_callback, as
\* _process_large_file_with_parallel_segments calls it.  psp.at is the
\* position of compress_segment_worker for each segment.
InitSegs ==
    /\ NoList
    /\ BatchStart
    /\ cfg \in Configs
    /\ cfg.use_same_filesystem /\ cfg.verify_integrity
    /\ cfg.delete_original_after_compression
    /\ parent = [f \in Files |-> "cwd_dir"]
    /\ large_files = {}
    /\ src = [f \in Files |-> TRUE]
    /\ workflow = "psp"
    /\ clock = 0
    /\ NewAggregator
    /\ enc = [e \in Encodes |-> EncodeIdle]

pspFrame == <<cfg, parent, large_files, classVars, hung, pool, fnVars,
              listVars,
              pc, ret, fsVars, segState, completed_segments, mergeArg,
              histVars, mainVars, orphans, workflow, clock, enc, apiVars>>

Segments == 1..psp.n

\* self.progress_aggregator = ProgressAggregator(), every segment registered
\* as parallel_segment_<i+1> with its size, and inside the with block one
\* future submitted per segment.
PSP_Submit(n, sizes) ==
    /\ workflow = "psp"
    /\ psp.pc = "none"
    /\ \A e \in Encodes : e > n => sizes[e] = 0
    /\ workers' = [w \in WorkerIds |->
                      IF w \in 1..n
                      THEN [status |-> "starting", progress_pct |-> 0,
                            file_size_bytes |-> sizes[w]]
                      ELSE NoWorker]
    /\ total_bytes' = WeightedSize(sizes, 1..n)
    /\ psp' = [psp EXCEPT
                 !.pc = "pool", !.n = n,
                 !.futures = [e \in Encodes |->
                                 IF e <= n THEN "pending" ELSE "none"]]
    /\ UNCHANGED pspFrame

\* A pool thread that would take any submitted work item, also one that
\* has been taken before.
CSW_Start_NotDequeued(e) ==
    /\ psp.pc = "pool"
    /\ psp.futures[e] \in {"pending", "done"}
    /\ Cardinality({x \in Segments : psp.futures[x] = "running"})
           < Min(cfg.max_concurrent_jobs, psp.n)
    /\ psp' = [psp EXCEPT !.futures[e] = "running", !.at[e] = "try",
                          !.runs[e] = psp.runs[e] + 1]
    /\ UNCHANGED <<pspFrame, workers, total_bytes>>

\* A thread of the pool of min(self.max_concurrent_jobs, len(segments))
\* workers takes a pending work item off the pool's queue and enters
\* compress_segment_worker; psp.runs counts the entries per segment.
CSW_Start(e) ==
    /\ psp.pc = "pool"
    /\ psp.futures[e] = "pending"
    /\ Cardinality({x \in Segments : psp.futures[x] = "running"})
           < Min(cfg.max_concurrent_jobs, psp.n)
    /\ psp' = [psp EXCEPT !.futures[e] = "running", !.at[e] = "try",
                          !.runs[e] = psp.runs[e] + 1]
    /\ UNCHANGED <<pspFrame, workers, total_bytes>>

\* compress_single_segment has probed the segment, built the command and
\* started the child.
CSW_Compress(e) ==
    /\ psp.pc = "pool"
    /\ psp.at[e] = "try"
    /\ psp' = [psp EXCEPT !.at[e] = "compress"]
    /\ UNCHANGED <<pspFrame, workers, total_bytes>>

\* segment_progress(seg_progress): update_worker_progress for the segment.
CSW_Progress(e, p) ==
    /\ psp.pc = "pool"
    /\ psp.at[e] = "compress"
    /\ p > workers[e].progress_pct
    /\ update_worker_progress(e, p)
    /\ UNCHANGED <<pspFrame, psp>>

\* The child exited: the final progress_callback(1.0) of
\* compress_single_segment, made before the return code is looked at.
CSW_FinalCallback(e) ==
    /\ psp.pc = "pool"
    /\ psp.at[e] = "compress"
    /\ update_worker_progress(e, Scale)
    /\ psp' = [psp EXCEPT !.at[e] = "exited"]
    /\ UNCHANGED pspFrame

\* compress_single_segment returned (success, message): complete_worker on
\* success, fail_worker otherwise.  It returns (False, message) without the
\* final callback when the segment cannot be probed or an exception is
\* caught by its own except clause.
CSW_Returned(e, success) ==
    /\ psp.pc = "pool"
    /\ \/ psp.at[e] = "exited"
       \/ psp.at[e] \in {"try", "compress"} /\ ~success
    /\ IF success THEN complete_worker(e) ELSE fail_worker(e)
    /\ psp' = [psp EXCEPT !.at[e] = IF success THEN "completed"
                                    ELSE "failed"]
    /\ UNCHANGED pspFrame

\* The worker puts the result dict on progress_queue and returns it.
CSW_Return(e) ==
    /\ psp.pc = "pool"
    /\ psp.at[e] \in {"completed", "failed"}
    /\ psp' = [psp EXCEPT
                 !.at[e] = "returned",
                 !.futures[e] = "done",
                 !.result[e] = IF psp.at[e] = "completed" THEN "success"
                               ELSE "failure"]
    /\ UNCHANGED <<pspFrame, workers, total_bytes>>

\* The except clause of the worker without its call of fail_worker.
CSW_Except_NoFail(e) ==
    /\ psp.pc = "pool"
    /\ psp.at[e] \in {"try", "completed", "failed"}
    /\ psp' = [psp EXCEPT
                 !.at[e] = "returned",
                 !.futures[e] = "done",
                 !.result[e] = "failure",
                 !.raised = psp.raised \cup {e}]
    /\ UNCHANGED <<pspFrame, workers, total_bytes>>

\* An exception raised in the try block of the worker outside
\* compress_single_segment's own try (before the child is started, or after
\* complete_worker or fail_worker): `except Exception` calls fail_worker
\* and returns a result with success False.
CSW_Except(e) ==
    /\ psp.pc = "pool"
    /\ psp.at[e] \in {"try", "completed", "failed"}
    /\ fail_worker(e)
    /\ psp' = [psp EXCEPT
                 !.at[e] = "returned",
                 !.futures[e] = "done",
                 !.result[e] = "failure",
                 !.raised = psp.raised \cup {e}]
    /\ UNCHANGED pspFrame

\* One round of `for future in as_completed(futures)`: future.result() of a
\* finished future; its output path is appended to completed_segments on
\* success and its input path to failed_segments otherwise (an exception
\* held by the future is handled by appending to failed_segments as well).
PSP_Collect(e) ==
    /\ psp.pc = "pool"
    /\ psp.futures[e] = "done"
    /\ e \notin psp.handled
    /\ psp' = [psp EXCEPT
                 !.handled = psp.handled \cup {e},
                 !.completed_segments =
                     IF psp.result[e] = "success"
                     THEN Append(psp.completed_segments, e)
                     ELSE psp.completed_segments,
                 !.failed_segments =
                     IF psp.result[e] = "success"
                     THEN psp.failed_segments
                     ELSE Append(psp.failed_segments, e)]
    /\ UNCHANGED <<pspFrame, workers, total_bytes>>

\* as_completed is exhausted, the with block is left and the function
\* returns completed_segments and a message.
PSP_Return ==
    /\ psp.pc = "pool"
    /\ psp.handled = Segments
    /\ psp' = [psp EXCEPT !.pc = "returned"]
    /\ UNCHANGED <<pspFrame, workers, total_bytes>>

NextSegs ==
    \/ \E n \in 2..NumEncodes, sizes \in [Encodes -> 0..1] :
           PSP_Submit(n, sizes)
    \/ \E e \in Encodes : CSW_Start(e)
    \/ \E e \in Encodes : CSW_Compress(e)
    \/ \E e \in Encodes, p \in 1..(Scale - 1) : CSW_Progress(e, p)
    \/ \E e \in Encodes : CSW_FinalCallback(e)
    \/ \E e \in Encodes, success \in BOOLEAN : CSW_Returned(e, success)
    \/ \E e \in Encodes : CSW_Return(e)
    \/ \E e \in Encodes : CSW_Except(e)
    \/ \E e \in Encodes : PSP_Collect(e)
    \/ PSP_Return

SpecSegs == InitSegs /\ [][NextSegs]_vars

\* ------------------------------------------------------------- verification
\* Everything but the calls followed one at a time below is at rest.
IdleProgram ==
    /\ NoAggregator
    /\ BatchStart
    /\ cfg \in Configs
    /\ cfg.max_concurrent_jobs = MaxWorkers
    /\ cfg.use_same_filesystem /\ cfg.verify_integrity
    /\ cfg.delete_original_after_compression
    /\ parent = [f \in Files |-> "cwd_dir"]
    /\ large_files = {}
    /\ exists = [f \in Files |-> TRUE]
    /\ src = exists
    /\ dry_run = FALSE
    /\ entry = "process_files_parallel"
    /\ parallel_enabled = TRUE
    /\ exit_code = -1
    /\ getsize = [f \in Files |-> 0]
    /\ threshold = 0
    /\ small_list = <<>>
    /\ large_list = <<>>
    /\ classified = 0
    /\ pool = NoPool
    /\ psp = NoCall

idleFrame == <<cfg, parent, large_files, classVars, hung, pool, psp,
               listVars, aggVars, pc, ret, fsVars, segState,
               completed_segments, mergeArg, histVars, mainVars, orphans>>

\* `if file_size < 1024`
MinFileSize == 1024
\* `if video_duration > 20` and `if video_duration > 10`, in seconds
MiddleTestAbove == 20
EndTestAbove == 10

\* The durations on the three sides of the two limits.
Durations == {EndTestAbove - 5, EndTestAbove + 5, MiddleTestAbove + 5}

\* One call of verify_file_integrity(file_path, original_info): the file
\* and what the probe and the decodes would report.  A decode that ends
\* with a non-zero return code, a timeout or another exception is not ok.
InitVerify ==
    /\ IdleProgram
    /\ shared = NoShared
    /\ ssf = NoDecision
    /\ chan = NoHandOver
    /\ \E ex \in BOOLEAN,
          size \in {0, MinFileSize - 1, MinFileSize, MinFileSize + 1},
          info \in BOOLEAN, vs \in 0..MaxStreams, d \in Durations,
          orig \in BOOLEAN, ss \in BOOLEAN, sr \in BOOLEAN,
          st \in BOOLEAN, mi \in BOOLEAN, en \in BOOLEAN :
           vfi = [NoVerify EXCEPT
                    !.pc = "call", !.exists = ex, !.file_size = size,
                    !.video_info = info, !.video_streams = vs,
                    !.video_duration = d, !.original_info = orig,
                    !.same_streams = ss, !.same_resolution = sr,
                    !.start_ok = st, !.middle_ok = mi, !.end_ok = en]

\* The decodes run by a call that reaches the playability tests.
PlayabilityTests(v) ==
    {"start"}
        \cup (IF v.start_ok /\ v.video_duration > MiddleTestAbove
              THEN {"middle"} ELSE {})
        \cup (IF v.start_ok /\ v.video_duration > EndTestAbove
              THEN {"end"} ELSE {})

\* verify_file_integrity in which a failed middle or end decode returns
\* failure as a failed start decode does.
verify_file_integrity_AllDecodes(v) ==
    IF ~v.exists THEN [ret |-> "failed", tested |-> {}]
    ELSE IF v.file_size < MinFileSize THEN [ret |-> "failed", tested |-> {}]
    ELSE IF ~v.video_info THEN [ret |-> "failed", tested |-> {}]
    ELSE IF v.video_streams = 0 THEN [ret |-> "failed", tested |-> {}]
    ELSE IF ~v.start_ok
    THEN [ret |-> "failed", tested |-> PlayabilityTests(v)]
    ELSE IF "middle" \in PlayabilityTests(v) /\ ~v.middle_ok
    THEN [ret |-> "failed", tested |-> PlayabilityTests(v)]
    ELSE IF "end" \in PlayabilityTests(v) /\ ~v.end_ok
    THEN [ret |-> "failed", tested |-> PlayabilityTests(v)]
    ELSE [ret |-> "ok", tested |-> PlayabilityTests(v)]

\* verify_file_integrity: the return value and the decodes that were run.
\* Steps 1 and 2 return failure; step 3, the comparison with
\* original_info, only logs; of step 4 only the decode of the first five
\* seconds returns failure, the middle and end decodes log a warning.
verify_file_integrity(v) ==
    IF ~v.exists THEN [ret |-> "failed", tested |-> {}]
    ELSE IF v.file_size < MinFileSize THEN [ret |-> "failed", tested |-> {}]
    ELSE IF ~v.video_info THEN [ret |-> "failed", tested |-> {}]
    ELSE IF v.video_streams = 0 THEN [ret |-> "failed", tested |-> {}]
    ELSE IF ~v.start_ok
    THEN [ret |-> "failed", tested |-> PlayabilityTests(v)]
    ELSE [ret |-> "ok", tested |-> PlayabilityTests(v)]

VFI_Call ==
    /\ vfi.pc = "call"
    /\ vfi' = [vfi EXCEPT !.pc = "returned",
                          !.ret = verify_file_integrity(vfi).ret,
                          !.tested = verify_file_integrity(vfi).tested]
    /\ UNCHANGED <<idleFrame, ssf, chan, shared>>

NextVerify == VFI_Call

SpecVerify == InitVerify /\ [][NextVerify]_vars

\* ------------------------------------------------------------- segmentation decision
\* The ways a file reaches its compression: process_file from
\* process_file_list, process_file from a small-file worker, and
\* _process_large_file_with_parallel_segments.
Paths == {"sequential", "small_worker", "large_path"}

\* One file on one path: its size and the thresholds in GB, whether its
\* duration exceeds duration_threshold_minutes, and the outcome of the
\* probe in compress_video and of the one in should_segment_file.  The
\* dispatcher routes by size: below threshold_gb to a small-file worker,
\* otherwise to the large-file path.
InitDecide ==
    /\ IdleProgram
    /\ shared = NoShared
    /\ vfi = NoVerify
    /\ chan = NoHandOver
    /\ \E path \in Paths, size \in 0..MaxGB, t \in 1..MaxGB - 1,
          st \in 1..MaxGB - 1, de \in BOOLEAN, p1 \in BOOLEAN,
          p2 \in BOOLEAN :
           /\ path = "small_worker" => size < t
           /\ path = "large_path" => size >= t
           /\ ssf = [NoDecision EXCEPT
                       !.pc = "call", !.path = path, !.file_size = size,
                       !.threshold_gb = t,
                       !.segmentation_threshold_gb = st,
                       !.duration_exceeds = de, !.probe_ok = p1,
                       !.probe_again_ok = p2]

\* should_segment_file: the size alone when its probe fails, size and
\* duration otherwise.
should_segment_file(d) ==
    LET size_exceeds == d.file_size > d.segmentation_threshold_gb
    IN  IF ~d.probe_again_ok
        THEN size_exceeds
        ELSE size_exceeds /\ d.duration_exceeds

\* compress_video up to the decision: without video information the
\* compression is refused before any decision.
CV_GetInfo ==
    /\ ssf.pc = "call"
    /\ ssf.path \in {"sequential", "small_worker"}
    /\ ssf' = [ssf EXCEPT !.pc = IF ssf.probe_ok THEN "decide"
                                 ELSE "refused"]
    /\ UNCHANGED <<idleFrame, vfi, chan, shared>>

\* compress_video: `if self.should_segment_file(input_path)` hands the
\* file to compress_video_with_segmentation.
CV_Decide ==
    /\ ssf.pc = "decide"
    /\ ssf' = [ssf EXCEPT !.pc = "decided",
                          !.segmented = should_segment_file(ssf)]
    /\ UNCHANGED <<idleFrame, vfi, chan, shared>>

\* _process_large_file_with_parallel_segments step 1: segment_video is
\* called on the file without a decision.
LF_Decide ==
    /\ ssf.pc = "call"
    /\ ssf.path = "large_path"
    /\ ssf' = [ssf EXCEPT !.pc = "decided", !.segmented = TRUE]
    /\ UNCHANGED <<idleFrame, vfi, chan, shared>>

NextDecide == CV_GetInfo \/ CV_Decide \/ LF_Decide

SpecDecide == InitDecide /\ [][NextDecide]_vars

\* ------------------------------------------------------------- segment hand-over
\* `queue.Queue(maxsize=50)`: the capacity the tests give the segment queue.
SegmentQueueCapacity == 50

\* segment_video has returned the n segment paths of one large file and
\* process_segments_parallel is about to hand them to its pool.  The
\* executor's work queue is the only queue between segmentation and
\* compression; chan counts its items (pending), the segments a pool
\* thread is compressing (running) and the finished ones (done).
InitHandOver ==
    /\ IdleProgram
    /\ shared = NoShared
    /\ vfi = NoVerify
    /\ ssf = NoDecision
    /\ \E n \in 2..MaxSegments :
           chan = [NoHandOver EXCEPT !.pc = "submit", !.n = n]

\* Segments handed to the executor so far.
Submitted == chan.pending + chan.running + chan.done

\* actual_workers = min(self.max_workers, len(segments))
ActualWorkers == Min(cfg.max_concurrent_jobs, chan.n)

\* executor.submit(compress_segment_worker, segment) for the next segment
\* of the comprehension: the item is appended to the executor's unbounded
\* work queue and submit returns at once.
Executor_Submit ==
    /\ chan.pc = "submit"
    /\ Submitted < chan.n
    /\ chan' = [chan EXCEPT !.pending = chan.pending + 1]
    /\ UNCHANGED <<idleFrame, vfi, ssf, shared>>

\* The comprehension is complete: the main thread goes on to as_completed.
Executor_AllSubmitted ==
    /\ chan.pc = "submit"
    /\ Submitted = chan.n
    /\ chan' = [chan EXCEPT !.pc = "collect"]
    /\ UNCHANGED <<idleFrame, vfi, ssf, shared>>

\* A free pool thread takes the oldest item of the work queue.
Executor_Take ==
    /\ chan.pc \in {"submit", "collect"}
    /\ chan.pending > 0
    /\ chan.running < ActualWorkers
    /\ chan' = [chan EXCEPT !.pending = chan.pending - 1,
                            !.running = chan.running + 1]
    /\ UNCHANGED <<idleFrame, vfi, ssf, shared>>

\* compress_segment_worker returns for one segment.
Executor_Done ==
    /\ chan.pc \in {"submit", "collect"}
    /\ chan.running > 0
    /\ chan' = [chan EXCEPT !.running = chan.running - 1,
                            !.done = chan.done + 1]
    /\ UNCHANGED <<idleFrame, vfi, ssf, shared>>

\* Every future has completed: the with block is left.
Executor_Shutdown ==
    /\ chan.pc = "collect"
    /\ chan.done = chan.n
    /\ chan' = [chan EXCEPT !.pc = "returned"]
    /\ UNCHANGED <<idleFrame, vfi, ssf, shared>>

NextHandOver ==
    \/ Executor_Submit
    \/ Executor_AllSubmitted
    \/ Executor_Take
    \/ Executor_Done
    \/ Executor_Shutdown

SpecHandOver == InitHandOver /\ [][NextHandOver]_vars

\* ------------------------------------------------------------- shared aggregator
\* The compress_video calls of the small-file workers of one batch.  All
\* of them go through self.progress_aggregator of the one processor, read
\* anew at every call.  owner[i] is the worker whose register_worker call
\* made the record single_compress_<i> of the current aggregator (0: no
\* such record), segment_owner the worker whose segmentation workflow
\* registered the records segment_<k> of the current aggregator.
\* may_segment: the configuration has segmentation_threshold_gb below
\* threshold_gb, so that a file of the small cohort can exceed it.
InitShared ==
    /\ IdleProgram
    /\ vfi = NoVerify
    /\ ssf = NoDecision
    /\ chan = NoHandOver
    /\ \E ms \in BOOLEAN :
           shared = [NoShared EXCEPT
                       !.pc = "batch", !.may_segment = ms,
                       !.aggregator = 1,
                       !.owner = [i \in 0..MaxClock |-> 0],
                       !.w = [e \in Encodes |->
                                 [phase |-> "idle", worker_id |-> 0]]]

\* Workers between their registration and their terminal transition.
RunningWorkers ==
    {e \in Encodes : shared.w[e].phase \in {"running", "segmenting"}}

\* The pool runs at most max_concurrent_jobs process_file calls at a time.
PoolHasFreeThread == Cardinality(RunningWorkers) < cfg.max_concurrent_jobs

\* Whether the current aggregator holds, under the id the worker uses, the
\* record that worker registered.
HoldsRecordOf(e) ==
    IF shared.w[e].phase = "segmenting"
    THEN shared.segment_owner = e
    ELSE shared.owner[shared.w[e].worker_id] = e

\* time.time() passes a whole second.
SA_Tick ==
    /\ shared.pc = "batch"
    /\ shared.clock < MaxClock
    /\ shared' = [shared EXCEPT !.clock = shared.clock + 1]
    /\ UNCHANGED <<idleFrame, vfi, ssf, chan>>

\* compress_video of a file that is not segmented:
\* worker_id = f"single_compress_{int(time.time())}" and register_worker,
\* which replaces a record already held under that id.
SA_Register(e) ==
    /\ shared.pc = "batch"
    /\ shared.w[e].phase = "idle"
    /\ PoolHasFreeThread
    /\ shared' = [shared EXCEPT
                    !.owner[shared.clock] = e,
                    !.w[e] = [phase |-> "running",
                              worker_id |-> shared.clock]]
    /\ UNCHANGED <<idleFrame, vfi, ssf, chan>>

\* compress_video of a file should_segment_file accepts:
\* compress_video_with_segmentation sets self.progress_aggregator to a new
\* ProgressAggregator and registers segment_1.. on it.
SA_Segmentation(e) ==
    /\ shared.pc = "batch"
    /\ shared.may_segment
    /\ shared.w[e].phase = "idle"
    /\ PoolHasFreeThread
    /\ shared' = [shared EXCEPT
                    !.aggregator = shared.aggregator + 1,
                    !.owner = [i \in 0..MaxClock |-> 0],
                    !.segment_owner = e,
                    !.w[e] = [phase |-> "segmenting", worker_id |-> 0],
                    !.replaced_under =
                        shared.replaced_under \/ RunningWorkers # {}]
    /\ UNCHANGED <<idleFrame, vfi, ssf, chan>>

\* self.progress_aggregator.update_worker_progress(worker_id, ...) of a
\* running worker: applied to whatever record the current aggregator holds
\* under worker_id, dropped when it holds none.
SA_Update(e) ==
    /\ shared.pc = "batch"
    /\ e \in RunningWorkers
    /\ shared' = [shared EXCEPT
                    !.stray = shared.stray \/ ~HoldsRecordOf(e)]
    /\ UNCHANGED <<idleFrame, vfi, ssf, chan>>

\* complete_worker or fail_worker of a running worker, as its update.
SA_End(e) ==
    /\ shared.pc = "batch"
    /\ e \in RunningWorkers
    /\ shared' = [shared EXCEPT
                    !.stray = shared.stray \/ ~HoldsRecordOf(e),
                    !.w[e].phase = "done"]
    /\ UNCHANGED <<idleFrame, vfi, ssf, chan>>

NextShared ==
    \/ SA_Tick
    \/ \E e \in Encodes : SA_Register(e)
    \/ \E e \in Encodes : SA_Segmentation(e)
    \/ \E e \in Encodes : SA_Update(e)
    \/ \E e \in Encodes : SA_End(e)

SpecShared == InitShared /\ [][NextShared]_vars

\* ------------------------------------------------------------- cancellation
\* process_files_parallel with a KeyboardInterrupt raised in the main
\* thread.  No except clause between the pools and process_files_parallel
\* catches it (they name Exception); leaving a `with ThreadPoolExecutor`
\* block calls shutdown(wait=True), which returns when every submitted work
\* item has run to its end.
InitCancel ==
    /\ Init
    /\ cfg.use_same_filesystem /\ cfg.verify_integrity
    /\ cfg.delete_original_after_compression
    /\ parent = [f \in Files |-> "cwd_dir"]

\* The main thread is inside the with block of a pool that still has work:
\* the small-file pool has started and a small file is queued or running,
\* or a segment of a large file is pending or running.
PoolHasWork ==
    \/ /\ \E f \in small_files : pc[f] # "queued"
       /\ \E f \in small_files : pc[f] # "done"
    \/ \E f \in large_files, k \in 1..NumSegs :
           segState[f][k] \in {"pending", "running"}

KeyboardInterrupt ==
    /\ batch = "running"
    /\ batch' = "interrupted"
    /\ UNCHANGED <<inputVars, listVars, aggVars, pc, ret, fsVars, segState,
                   completed_segments, mergeArg, histVars, processed_files,
                   failed_files, collected, orphans>>

\* A work item still in the queue of the small-file pool is run by a pool
\* thread during shutdown(wait=True): process_file up to the creation of
\* the temp directory.
Cancel_StartQueued(f, ok) ==
    /\ batch = "interrupted"
    /\ \E g \in small_files : pc[g] # "queued"
    /\ NextQueuedSmall(f)
    /\ SmallBusy < SmallWorkers
    /\ CheckDiskSpace(f)
    /\ IF ok THEN Goto(f, "compress") ELSE Return(f, "failed")
    /\ UNCHANGED <<inputVars, listVars, aggVars,
                   src, tempOut, final, segDirs, segVars,
                   histVars, mainVars, orphans>>

\* The steps of the pool threads, which go on during shutdown(wait=True).
Cancel_WorkerStep ==
    /\ batch = "interrupted"
    /\ \/ \E f \in Files, o \in {"ok", "hash_fail", "probe_fail"} :
              PF_CompressStart(f, o)
       \/ \E f \in Files, o \in {"ok", "fail", "raise"} : PF_CompressEnd(f, o)
       \/ \E f \in Files, ok \in BOOLEAN : PF_VerifyTemp(f, ok)
       \/ \E f \in Files, ok \in BOOLEAN : PF_Move(f, ok)
       \/ \E f \in small_files, ok \in BOOLEAN : PF_VerifyFinal(f, ok)
       \/ \E f \in small_files, ok \in BOOLEAN : PF_Delete(f, ok)
       \/ \E f \in small_files : PF_Cleanup(f)
       \/ OrphanExit
       \/ \E f \in Files, k \in 1..NumSegs, ok \in BOOLEAN :
              Seg_Start(f, k, ok)
       \/ \E f \in Files, k \in 1..NumSegs, ok \in BOOLEAN :
              Seg_End(f, k, ok)

\* except KeyboardInterrupt of process_files_parallel, reached when the
\* pool's shutdown has returned: cleanup_all_temp_directories(), then raise.
Cancel_Handler ==
    /\ batch = "interrupted"
    /\ ~ PoolHasWork
    /\ batch' = "cancelled"
    /\ CleanupAllTempDirectories
    /\ UNCHANGED <<inputVars, listVars, aggVars,
                   pc, ret, src, final, segDirs, segVars,
                   histVars, processed_files, failed_files, collected,
                   orphans>>

\* A second KeyboardInterrupt while the main thread waits in
\* shutdown(wait=True): the wait is abandoned, and the same handler runs.
Cancel_SecondInterrupt ==
    /\ batch = "interrupted"
    /\ PoolHasWork
    /\ batch' = "cancelled"
    /\ CleanupAllTempDirectories
    /\ UNCHANGED <<inputVars, listVars, aggVars,
                   pc, ret, src, final, segDirs, segVars,
                   histVars, processed_files, failed_files, collected,
                   orphans>>

\* ------------------------------------------------------------- specification
Next ==
    \/ \E f \in Files, ok \in BOOLEAN : PF_CheckSpace(f, ok)
    \/ \E f \in Files, o \in {"ok", "hash_fail", "probe_fail"} :
           PF_CompressStart(f, o)
    \/ \E f \in Files, o \in {"ok", "fail", "raise"} : PF_CompressEnd(f, o)
    \/ \E f \in Files, ok \in BOOLEAN : PF_VerifyTemp(f, ok)
    \/ \E f \in Files, ok \in BOOLEAN : PF_Move(f, ok)
    \/ \E f \in small_files, ok \in BOOLEAN : PF_VerifyFinal(f, ok)
    \/ \E f \in small_files, ok \in BOOLEAN : PF_Delete(f, ok)
    \/ \E f \in small_files : PF_Cleanup(f)
    \/ \E f \in Files, cb \in BOOLEAN : CollectSmall(f, cb)
    \/ OrphanExit
    \/ \E f \in Files, ok \in BOOLEAN : LF_CheckSpace(f, ok)
    \/ \E f \in Files, n \in 0..NumSegs : LF_Segment(f, n)
    \/ \E f \in Files, k \in 1..NumSegs, ok \in BOOLEAN : Seg_Start(f, k, ok)
    \/ \E f \in Files, k \in 1..NumSegs, ok \in BOOLEAN : Seg_End(f, k, ok)
    \/ \E f \in Files : LF_NoSegments(f)
    \/ \E f \in Files, o \in {"ok", "fail_none", "fail_partial"} :
           LF_Merge(f, o)
    \/ \E f \in Files, ok \in BOOLEAN : LF_Verify(f, ok)
    \/ \E f \in Files, ok \in BOOLEAN : LF_Delete(f, ok)
    \/ \E f \in Files : LF_Cleanup(f)
    \/ \E f \in Files, cb \in BOOLEAN : CollectLarge(f, cb)
    \/ \E cb \in BOOLEAN : FinalCleanup(cb)

Spec == Init /\ [][Next]_vars

\* ------------------------------------------------------------- hung child
\* process_files_parallel with at most one transcoder child that never
\* exits and writes nothing.  The monitoring loops run `while process.poll()
\* is None`, process.wait() has no timeout, and future.result(timeout=...)
\* is called on futures that as_completed has yielded, which are done: no
\* step of the code ends the wait for such a child.
InitHang ==
    /\ Init
    /\ cfg.use_same_filesystem /\ cfg.verify_integrity
    /\ cfg.delete_original_after_compression
    /\ parent = [f \in Files |-> "cwd_dir"]

Child_Hangs(f, k) ==
    /\ hung = {}
    /\ \/ k = 0 /\ pc[f] = "compressing"
       \/ k \in 1..NumSegs /\ segState[f][k] = "running"
    /\ hung' = {<<f, k>>}
    /\ UNCHANGED <<cfg, parent, large_files, classVars, pool, psp, fnVars,
                   listVars, aggVars,
                   pc, ret, fsVars, segState, completed_segments, mergeArg,
                   histVars, mainVars, orphans>>

\* The work item of a hung child stays where it is: its worker is in the
\* monitoring loop.
HungStay ==
    \A x \in hung :
        IF x[2] = 0 THEN pc'[x[1]] = pc[x[1]]
        ELSE segState'[x[1]][x[2]] = segState[x[1]][x[2]]

NextHang ==
    \/ \E f \in Files, k \in 0..NumSegs : Child_Hangs(f, k)
    \/ Next /\ HungStay

\* Every thread that can take a step eventually takes one.
SpecHang == InitHang /\ [][NextHang]_vars /\ WF_vars(NextHang)

NextCancel ==
    \/ batch = "running" /\ Next
    \/ KeyboardInterrupt
    \/ \E f \in Files, ok \in BOOLEAN : Cancel_StartQueued(f, ok)
    \/ Cancel_WorkerStep
    \/ Cancel_Handler
    \/ Cancel_SecondInterrupt

SpecCancel == InitCancel /\ [][NextCancel]_vars

TypeOK ==
    /\ cfg \in Configs
    /\ pc \in [Files -> {"queued", "compress", "compressing",
                         "verify", "move", "verify_final", "delete",
                         "cleanup", "segment", "segments", "done"}]
    /\ ret \in [Files -> {"none", "ok", "failed", "raised"}]
    /\ src \in [Files -> BOOLEAN]
    /\ tempOut \in [Files -> {"none", "partial", "complete"}]
    /\ final \in [Files -> {"none", "partial", "complete",
                            "missing_segments", "misordered"}]
    /\ compTemp \subseteq Dirs \cup {ConfiguredTempDir}
    /\ segDirs \subseteq Dirs \cup {ConfiguredTempDir}
    /\ orphans \in 0..NumFiles
    /\ batch \in {"running", "returned", "raised", "interrupted",
                  "cancelled"}
    /\ exists \in [Files -> BOOLEAN]
    /\ dry_run \in BOOLEAN
    /\ exit_code \in -1..2
    /\ clock \in 0..MaxClock
    /\ total_bytes \in 0..(2 * NumEncodes * MaxSize)
    /\ lock \in 0..NumThreads
    /\ processed_bytes \in Int
    /\ \A t \in Threads :
           top[t].pc \in {"idle", "absent", "r_total", "u_status", "u_processed",
                          "c_progress", "notify", "s_read", "s_returned"}
    /\ \A w \in WorkerIds :
           /\ workers[w].status \in {"absent", "starting", "processing",
                                     "completed", "failed"}
           /\ workers[w].file_size_bytes \in 0..MaxSize

\* ------------------------------------------------------------- measures
\* The transcoder children started with subprocess.Popen and not yet exited:
\* one per small file being encoded, one per segment being encoded, and the
\* children whose worker returned without waiting for them.
Children ==
    Cardinality({f \in Files : pc[f] = "compressing"})
    + Cardinality({x \in Files \X (1..NumSegs) :
                      segState[x[1]][x[2]] = "running"})
    + orphans

\* ------------------------------------------------------------- properties
\* C1: a Job that returned failure, at whatever step it failed, still has
\* its source file.
C1_SourceKeptOnFailure ==
    \A f \in Files : ret[f] = "failed" => src[f]

\* A small file failed after its move and a large file failed after its
\* merge, the latest failure points before the deletion step.
C1_Witness ==
    /\ \E f \in small_files : ret[f] = "failed" /\ moved[f]
    /\ \E g \in large_files : ret[g] = "failed" /\ final[g] # "none"

\* C2: when a segment of a large-file Job failed to compress, no merge is
\* attempted for the Job, and once the Job has returned it has failed and
\* its source file exists.
C2_NoMergeAfterSegmentFailure ==
    \A f \in large_files :
        (\E k \in 1..NumSegs : segState[f][k] = "failed") =>
            /\ mergeArg[f] = <<>>
            /\ Returned(f) => ret[f] = "failed" /\ src[f]

\* C3: the list of compressed segments handed to merge is in ascending
\* order of segment ordinal.
C3_MergeListAscending ==
    \A f \in large_files : Ascending(mergeArg[f])

C5_DeleteIffFlag ==
    \A f \in Files : ret[f] = "ok" =>
        (~src[f] <=> cfg.delete_original_after_compression)

\* C6: whenever the source file is absent, the compressed file is present
\* in the source directory, complete and verified.
C6_SourceAbsentImpliesOutput ==
    \A f \in Files : ~src[f] => final[f] = "complete" /\ vFinal[f]

\* C7: when the batch has returned, no compression temp directory and no
\* segments directory exists under the parent directory of an input file.
C7_NoTempDirsAtReturn ==
    batch = "returned" =>
        \A f \in Files : parent[f] \notin compTemp /\ parent[f] \notin segDirs

\* C8: when the batch has returned, every file occurs exactly once in
\* processed_files or exactly once in failed_files, and not in both.
C8_ExactlyOneOutcome ==
    batch = "returned" =>
        \A f \in Files : processed_files[f] + failed_files[f] = 1

\* C9: the transcoder children started and not yet exited never exceed
\* max_concurrent_jobs.
C9_ChildrenWithinBudget ==
    Children <= cfg.max_concurrent_jobs

\* C10: a temp directory never holds the in-progress outputs of two Jobs,
\* and the temp_output of a Job that is between its encode and its move has
\* not been deleted.
C10_OneInProgressPerTempDir ==
    /\ \A f, g \in Files :
           f # g /\ tempOut[f] = "partial" /\ tempOut[g] = "partial"
               => TempDirOf(f) # TempDirOf(g)
    /\ \A f \in Files :
           pc[f] \in {"compressing", "verify", "move"} => tempOut[f] # "none"

\* C11: a path of the file list that does not exist never aborts the batch:
\* the batch does not end with an exception, and when process_file_list has
\* returned every file that exists has been handled.
C11_MissingPathSkipped ==
    /\ batch # "raised"
    /\ Sequential /\ batch = "returned" =>
           \A f \in Files : exists[f] => f \in collected

\* C12: a step in which one Job fails leaves in place the temp directory
\* that another Job, started and not yet encoding, is about to write its
\* output into: the failure of one Job does not make another Job fail.
C12_FailureLeavesOthersAlone ==
    [][\A f, g \in Files :
          (/\ f # g
           /\ ret[f] = "none" /\ ret'[f] = "failed"
           /\ pc[g] = "compress" /\ TempDirOf(g) \in compTemp)
              => TempDirOf(g) \in compTemp']_vars

C14_DryRunCreatesNoTempDir ==
    dry_run => compTemp = {} /\ segDirs = {}

\* C15: when process_file_list has returned and the process has exited,
\* the exit code is 2 if a Job failed and 0 if every Job succeeded.
C15_ExitCode ==
    exit_code # -1 /\ batch = "returned" =>
        exit_code = (IF \E f \in Files : failed_files[f] > 0 THEN 2 ELSE 0)

\* C16: the progress_pct stored for a worker id never decreases while the
\* record is not yet completed or failed.
C16_ProgressNonDecreasing ==
    [][\A w \in WorkerIds :
          workers[w].status \in {"starting", "processing"} =>
              workers'[w].progress_pct >= workers[w].progress_pct]_vars

\* C17: once a record is completed or failed, no update_worker_progress,
\* complete_worker or fail_worker call changes its status (a registration
\* under the same id starts a new record).
C17_TerminalStatusKept ==
    [][\A w \in WorkerIds :
          workers[w].status \in {"completed", "failed"} =>
              workers'[w].status \in {workers[w].status, "starting"}]_vars

\* C18: overall_progress of a snapshot is at least 0 and at most 1.
C18_OverallInUnitInterval ==
    0 <= overall_progress /\ overall_progress <= One

\* C19: overall_progress is 0 as long as no registered worker has made
\* progress, and is exactly 1 whenever workers are registered and every one
\* of them is completed or failed.
C19_ZeroAtStartOneAtEnd ==
    /\ (\A w \in Registered : workers[w].progress_pct = 0)
           => overall_progress = 0
    /\ (/\ Registered # {}
        /\ \A w \in Registered : workers[w].status \in {"completed", "failed"})
           => overall_progress = One

\* C20: overall_progress does not decrease in a step after which no worker
\* is failed and in which no existing record is replaced or loses progress
\* (a step that registers a worker under a new id is included).
C20_OverallNonDecreasing ==
    [][(/\ \A w \in WorkerIds : workers'[w].status # "failed"
        /\ \A w \in Registered :
              /\ workers'[w].file_size_bytes = workers[w].file_size_bytes
              /\ workers'[w].progress_pct >= workers[w].progress_pct) =>
           overall_progress' >= overall_progress]_vars

\* C21: a snapshot returned by get_aggregate_progress, with the other
\* methods called from other threads, was started when no other thread was
\* inside a writing method, every row of it is the record as it was at that
\* point, and its totals agree with its rows: total_workers is the number of
\* rows and active_workers the number of rows with status processing.
C21_SnapshotPointInTime ==
    \A t \in Threads :
        top[t].pc = "s_returned" =>
            LET sn == top[t].snap
                st == top[t].at
            IN  /\ st.quiet
                /\ \A i \in 1..Len(sn.rows) :
                       /\ sn.rows[i].progress_pct
                              = st.workers[sn.rows[i].id].progress_pct
                       /\ sn.rows[i].status
                              = st.workers[sn.rows[i].id].status
                /\ sn.total_workers = Len(sn.rows)
                /\ sn.active_workers =
                       Cardinality({i \in 1..Len(sn.rows) :
                                       sn.rows[i].status = "processing"})

\* C22: a call of update_worker_progress, complete_worker or fail_worker
\* with a worker id that is not registered returns normally, and neither
\* the call nor its return changes a record, self._total_bytes or
\* self._processed_bytes.
C22_UnregisteredIdNoOp ==
    [][\A t \in Threads :
          /\ (/\ top[t].pc = "idle"
              /\ top'[t].pc \in {"absent", "u_status", "c_progress",
                                  "notify"}
              /\ workers[top'[t].w].status = "absent")
                 => /\ top'[t].pc = "absent"
                    /\ UNCHANGED <<workers, total_bytes, processed,
                                   processed_bytes>>
          /\ (top[t].pc = "absent" /\ top'[t].pc # "absent")
                 => /\ top'[t].pc = "idle"
                    /\ UNCHANGED <<workers, total_bytes, processed,
                                   processed_bytes>>]_vars

C22_Witness ==
    \E t \in Threads, w \in ApiIds :
        /\ top[t].pc = "absent"
        /\ workers[w].status = "processing"
        /\ processed_bytes > 0

\* C23: the large files go through the multi-file pipeline exactly when
\* there is more than one of them, segment_parallel is enabled and
\* max_concurrent_jobs > 1.  With these criteria met every large file has
\* been started by the time the segments of one of them are compressed (no
\* large file waits for another to finish); without them at most one large
\* file is in progress.
C23_PipelineIffCriteria ==
    LET criteria == /\ Cardinality(large_files) > 1
                    /\ segment_parallel
                    /\ cfg.max_concurrent_jobs > 1
    IN  /\ criteria =>
               ~ \E f, g \in large_files :
                     /\ pc[f] = "segments"
                     /\ \E k \in 1..NumSegs : segState[f][k] = "running"
                     /\ pc[g] = "queued"
        /\ ~ criteria =>
               Cardinality({f \in large_files : Active(f)}) <= 1

\* Occurrences of f in the list q.
Occurrences(q, f) == Cardinality({i \in 1..Len(q) : q[i] = f})

\* C24: when the categorisation loop is over, every existing path is in
\* exactly one of small_files and large_files, once: in small_files if and
\* only if its size is strictly below the threshold, in large_files
\* otherwise (a size equal to the threshold is large).
C24_ExactlyOneCohort ==
    classified = NumFiles =>
        \A f \in Files :
            exists[f] =>
                /\ Occurrences(small_list, f) + Occurrences(large_list, f) = 1
                /\ Occurrences(small_list, f) = 1
                       <=> getsize[f] < threshold
                /\ Occurrences(large_list, f) = 1
                       <=> getsize[f] >= threshold

C24_Witness ==
    /\ classified = NumFiles
    /\ \E f, g \in Files :
           /\ exists[f] /\ getsize[f] = threshold
           /\ Occurrences(large_list, f) = 1
           /\ exists[g] /\ getsize[g] < threshold
           /\ Occurrences(small_list, g) = 1

\* C25: when process_files_parallel has ended after a KeyboardInterrupt, no
\* transcoder child started by the batch is still running: every child that
\* was in flight has been terminated and reaped.
C25_ChildrenReapedOnCancel ==
    batch = "cancelled" => Children = 0

\* C26: when a transcoder child never exits, its work item is eventually
\* reported failed and the batch eventually returns.
C26_HungChildTimesOut ==
    (hung # {}) ~> /\ batch \in {"returned", "raised"}
                   /\ \A x \in hung : failed_files[x[1]] > 0

\* C27: for every configuration and every non-empty work list, a pool is
\* created with min(max_concurrent_jobs, number of work items) workers, and
\* max_concurrent_jobs never exceeds max_workers, max_workers_limit or the
\* CPU count.
C27_PoolSizeAsStated ==
    /\ pool.pc # "config" =>
           /\ pool.max_concurrent_jobs <= pool.max_workers_config
           /\ pool.max_concurrent_jobs <= pool.max_workers_limit
           /\ pool.max_concurrent_jobs <= pool.cpu_cores
    /\ pool.items >= 1 =>
           /\ pool.pc = "pool"
           /\ pool.actual_workers = Min(pool.max_concurrent_jobs, pool.items)

\* C27 (amended): max_concurrent_jobs is at least 1, never exceeds the CPU
\* count, and never exceeds max_workers or max_workers_limit when that
\* setting is at least 1; every pool that is created has
\* min(max_concurrent_jobs, number of work items) workers, which is between
\* 1 and the number of work items; a single segment, or segments with
\* parallel processing disabled, are processed without a pool.
C27_PoolSize ==
    /\ pool.pc \in {"ready", "pool", "sequential"} =>
           /\ pool.max_concurrent_jobs >= 1
           /\ pool.max_concurrent_jobs <= pool.cpu_cores
           /\ pool.max_workers_config >= 1 =>
                  pool.max_concurrent_jobs <= pool.max_workers_config
           /\ pool.max_workers_limit >= 1 =>
                  pool.max_concurrent_jobs <= pool.max_workers_limit
    /\ pool.pc = "pool" =>
           /\ pool.actual_workers = Min(pool.max_concurrent_jobs, pool.items)
           /\ pool.actual_workers \in 1..pool.items
    /\ pool.pc = "sequential" =>
           /\ pool.work = "segments"
           /\ pool.items = 1 \/ ~parallel_enabled
           /\ pool.actual_workers = 0

\* A pool of segment workers smaller than the list, capped by the limit.
C27_Witness ==
    /\ pool.pc = "pool"
    /\ pool.work = "segments"
    /\ pool.max_workers_limit < pool.max_workers_config
    /\ pool.max_workers_limit < pool.cpu_cores
    /\ pool.actual_workers = pool.max_workers_limit
    /\ pool.actual_workers < pool.items
    /\ pool.actual_workers > 1

\* C28: for every input fraction, including values below 0 and above 1,
\* Update stores a progress value in [0, 1] in the record and sets the
\* status to processing if the fraction is below 1 and to completed
\* otherwise.  Stated of a thread that has written the record and still
\* holds the lock.
C28_UpdateStoresClamped ==
    \A t \in Threads :
        top[t].pc = "u_processed" =>
            /\ workers[top[t].w].progress_pct \in 0..Scale
            /\ workers[top[t].w].status =
                   IF top[t].arg < Scale THEN "processing" ELSE "completed"

\* The sums over the records in the registry: of file_size_bytes, of
\* progress_pct * file_size_bytes and of |progress_pct|.
RECURSIVE SizeSum(_)
SizeSum(W) ==
    IF W = {} THEN 0
    ELSE LET w == CHOOSE x \in W : TRUE
         IN  workers[w].file_size_bytes + SizeSum(W \ {w})

RECURSIVE ProgressSizeSum(_)
ProgressSizeSum(W) ==
    IF W = {} THEN 0
    ELSE LET w == CHOOSE x \in W : TRUE
         IN  workers[w].progress_pct * workers[w].file_size_bytes
                 + ProgressSizeSum(W \ {w})

Abs(x) == IF x < 0 THEN 0 - x ELSE x

RECURSIVE AbsProgressSum(_)
AbsProgressSum(W) ==
    IF W = {} THEN 0
    ELSE LET w == CHOOSE x \in W : TRUE
         IN  Abs(workers[w].progress_pct) + AbsProgressSum(W \ {w})

\* C29: after any sequence of register, update, complete and fail calls,
\* re-registration of an id included, overall_progress of a returned
\* snapshot is the sum of progress_pct * file_size_bytes divided by the sum
\* of file_size_bytes over the records in the registry, and 0 when that sum
\* of sizes is 0.  The equality is up to the rounding of the weights: each
\* weight is off by at most half a unit of 1/Precision.
C29_OverallIsWeightedMean ==
    \A t \in Threads :
        top[t].pc = "s_returned" =>
            IF SizeSum(Registered) = 0
            THEN top[t].snap.overall_progress = 0
            ELSE 2 * Abs(top[t].snap.overall_progress * SizeSum(Registered)
                            - Precision * ProgressSizeSum(Registered))
                     <= AbsProgressSum(Registered) * SizeSum(Registered)

\* C30: process_segments_parallel returns only after every submitted
\* segment has produced exactly one result; an exception inside a worker
\* does not reach the caller but yields a failure result, the final
\* aggregator status of that worker is failed, and the final status of a
\* worker whose result is a success is completed.
C30_OneResultPerSegment ==
    psp.pc = "returned" =>
        \A e \in Segments :
            /\ psp.futures[e] = "done"
            /\ Occurrences(psp.completed_segments, e)
                   + Occurrences(psp.failed_segments, e) = 1
            /\ psp.result[e] = "success" =>
                   /\ Occurrences(psp.completed_segments, e) = 1
                   /\ workers[e].status = "completed"
            /\ e \in psp.raised =>
                   /\ psp.result[e] = "failure"
                   /\ Occurrences(psp.failed_segments, e) = 1
                   /\ workers[e].status = "failed"

\* The call returned with one segment compressed and another whose worker
\* raised after complete_worker.
C30_Witness ==
    /\ psp.pc = "returned"
    /\ \E e \in Segments :
           /\ e \in psp.raised
           /\ workers[e].progress_pct = Scale
           /\ workers[e].status = "failed"
    /\ \E e \in Segments : psp.result[e] = "success"

StageRank(p) ==
    CASE p = "queued" -> 0
      [] p = "segment" -> 1
      [] p = "segments" -> 2
      [] p = "verify_final" -> 3
      [] p = "delete" -> 4
      [] p = "cleanup" -> 5
      [] OTHER -> 6

\* C32: for each large Job the stages occur only in the order segment,
\* compress, merge, verify, delete source: a segment is compressed only
\* after segmentation has returned, the merge starts only when every
\* segment has a compression result, the verification only after the merge
\* succeeded, the source is deleted only after the verification passed,
\* and a Job that has returned failure changes nothing any more.
C32_StagesInOrder ==
    [][\A f \in large_files :
          /\ pc'[f] # pc[f] => StageRank(pc'[f]) > StageRank(pc[f])
          /\ (\E k \in 1..NumSegs :
                 /\ segState'[f][k] # segState[f][k]
                 /\ segState'[f][k] \in {"running", "ok", "failed"})
                => pc[f] = "segments" /\ pc'[f] = "segments"
          /\ (mergeArg'[f] # mergeArg[f] /\ mergeArg'[f] # <<>>)
                => /\ pc[f] = "segments"
                   /\ \A k \in 1..NSeg(f) : segState[f][k] \in {"ok", "failed"}
          /\ pc'[f] = "verify_final"
                => /\ mergeArg'[f] # <<>>
                   /\ final'[f] \notin {"none", "partial"}
          /\ src[f] /\ ~src'[f] => pc[f] = "delete" /\ vFinal[f]
          /\ ret[f] = "failed"
                => /\ pc'[f] = "done" /\ ret'[f] = "failed"
                   /\ src'[f] = src[f] /\ final'[f] = final[f]
                   /\ cSeg'[f] = cSeg[f] /\ segFiles'[f] = segFiles[f]
                   /\ vFinal'[f] = vFinal[f]]_vars

\* A large Job cut into NumSegs segments, compressed by two workers at a
\* time, merged, verified and with its source deleted.
C32_Witness ==
    \E f \in large_files :
        /\ pc[f] = "cleanup"
        /\ ~src[f]
        /\ Len(mergeArg[f]) = NumSegs
        /\ cfg.max_concurrent_jobs > 1

\* C33: in process_files_parallel no large Job has started a step (disk
\* space check, segmentation, transcode) while a small Job of the batch has
\* not returned its outcome.
C33_LargeAfterSmall ==
    \A f \in large_files :
        pc[f] # "queued" =>
            \A g \in small_files : pc[g] = "done" /\ Returned(g)

\* A large Job is being segmented in a batch with a small Job that failed.
C33_Witness ==
    \E f \in large_files, g \in small_files :
        /\ pc[f] = "segments"
        /\ ret[g] = "failed"

\* C34: verify_file_integrity returns failure exactly when the file is
\* missing or smaller than 1024 bytes, the probe fails, there is no video
\* stream, or the decode of the first 5 seconds fails; a failed middle or
\* end decode and a stream-count or resolution difference from the
\* original do not enter the result.
C34_VerifyFailsExactlyWhen ==
    vfi.pc = "returned" =>
        /\ vfi.ret \in {"ok", "failed"}
        /\ vfi.ret = "failed" <=>
               \/ ~vfi.exists
               \/ vfi.file_size < 1024
               \/ ~vfi.video_info
               \/ vfi.video_streams = 0
               \/ ~vfi.start_ok

\* A verification that passed although the middle and the end decode
\* failed and the streams and the resolution differ from the original.
C34_Witness ==
    /\ vfi.pc = "returned"
    /\ vfi.ret = "ok"
    /\ vfi.tested = {"start", "middle", "end"}
    /\ ~vfi.middle_ok /\ ~vfi.end_ok
    /\ vfi.original_info /\ ~vfi.same_streams /\ ~vfi.same_resolution
    /\ vfi.file_size = 1024

\* C35: when process_file's verification of the moved file at its final
\* location fails, the Job has returned failure and both the source file
\* and the moved <stem>_compressed<ext> are in the source directory.
C35_BothKeptOnFinalVerifyFailure ==
    \A f \in small_files :
        pc[f] = "done" /\ moved[f] /\ ~vFinal[f] =>
            /\ ret[f] = "failed"
            /\ src[f]
            /\ final[f] = "complete"

\* A Job whose final verification failed has returned while another Job
\* of the batch has gone on to delete its own source.
C35_Witness ==
    \E f, g \in small_files :
        /\ pc[f] = "done" /\ moved[f] /\ ~vFinal[f] /\ ret[f] = "failed"
        /\ ~src[g]

\* C36: on every path and for every outcome of the probe, a file is
\* segmented if and only if its size exceeds segmentation_threshold_gb and
\* its duration exceeds duration_threshold_minutes.
C36_SegmentedIffBothExceed ==
    ssf.pc = "decided" =>
        (ssf.segmented <=>
            /\ ssf.file_size > ssf.segmentation_threshold_gb
            /\ ssf.duration_exceeds)

\* C37: the number of segment items queued between segmentation and the
\* compressors never exceeds 50, a producer that finds 50 items queued
\* does not add another until one is removed, and no item is dropped.
C37_QueueAtMostFifty ==
    /\ chan.pending <= SegmentQueueCapacity
    /\ chan.pc = "returned" => chan.done = chan.n

\* C38: a large-file Job that has returned failure without a verified
\* merged file (it failed at the merge, at the verification of the merged
\* file, or before) has left no <stem>_compressed<ext> in the source
\* directory.
C38_NoMergedFileAfterFailure ==
    \A f \in large_files :
        pc[f] = "done" /\ ret[f] = "failed" /\ ~vFinal[f] =>
            final[f] = "none"

\* C39: the worker ids under which concurrently running compressions are
\* registered are pairwise distinct, also for two files that start within
\* the same clock second.
C39_RunningIdsDistinct ==
    \A e1, e2 \in Encodes :
        /\ e1 # e2
        /\ enc[e1].phase = "running"
        /\ enc[e2].phase = "running"
        => enc[e1].worker_id # enc[e2].worker_id

\* C40: every progress update and terminal transition of a running worker
\* is applied to the record registered for that worker, and the shared
\* aggregator is never replaced by a starting segmentation workflow while
\* another worker is running.
C40_UpdatesReachOwnRecord ==
    /\ ~shared.stray
    /\ ~shared.replaced_under

=============================================================================
